---- MODULE Spec2Model ----
(***************************************************************************)
(* ChronoSchismLogViewer.                                                  *)
(*                                                                         *)
(* The Heckel-style line diff engine (src/src/core/diff_engine.rs):        *)
(* compute_diff is a pipeline of four passes; every pass is an operator    *)
(* translated from its Rust function and every pass is one step of the     *)
(* state machine Spec.                                                     *)
(*                                                                         *)
(* The presenter AppLogic (src/src/app_logic/handler.rs): every handler is *)
(* an operator on the presenter's fields, and handling one event, on_quit  *)
(* and try_dequeue_command are the steps of the state machine              *)
(* SpecPresenter.                                                          *)
(*                                                                         *)
(* Rust vectors are 0-based: At(v, i) reads v[i]; Option<T> is <<>> (None) *)
(* or <<x>> (Some(x)).                                                     *)
(***************************************************************************)
EXTENDS Integers, Sequences, FiniteSets, TLC

VARIABLES lines_a, lines_b, pc, table, oa, na, built, result,
          app, prev, event, effects,
          parser, calls, served

\* the engine's pipeline; the presenter, the presenter before the event it
\* handled last, that event, and what handling it did to the collaborators;
\* the timestamp parser, its callers, and the calls it has served
engine_vars == <<lines_a, lines_b, pc, table, oa, na, built, result>>
presenter_vars == <<app, prev, event, effects>>
parser_vars == <<parser, calls, served>>
vars == <<engine_vars, presenter_vars, parser_vars>>

\* ---------------------------------------------------------------- bounds
MaxLen == 3
NumKeys == 3

\* ------------------------------------------------------- Option and Vec
None == <<>>
Some(x) == <<x>>
IsSome(o) == o # <<>>
Unwrap(o) == o[1]
At(v, i) == v[i + 1]
SetAt(v, i, x) == [v EXCEPT ![i + 1] = x]
Repeat(x, n) == [k \in 1..n |-> x]

\* ------------------------------------------------------- ComparableLine
KeyNames == <<"a", "b", "c", "d", "e", "f">>
Keys == {KeyNames[k] : k \in 1..NumKeys}

ComparableLine(original_text, comparable_text) ==
    [original_text |-> original_text, comparable_text |-> comparable_text]

\* a derived PartialEq would compare every field
LineEqDerived(l1, l2) ==
    l1.comparable_text = l2.comparable_text /\ l1.original_text = l2.original_text

\* impl PartialEq for ComparableLine: the comparable text alone decides.
LineEq(l1, l2) == l1.comparable_text = l2.comparable_text

\* impl Hash for ComparableLine: the hash map slot of a line.
TableKey(line) == line.comparable_text

\* tests' same(text): the displayed text is the comparison key.
same(text) == ComparableLine(text, text)

\* tests' comparable(original, stripped): a timestamp prefix, different for
\* every side and position, in front of the comparison key.
comparable(side, p, text) ==
    ComparableLine("[" \o side \o ToString(p) \o "] " \o text, text)

StampModes == {"same", "stamped"}

MakeLines(side, mode, keys) ==
    [p \in 1..Len(keys) |->
        IF mode = "same" THEN same(keys[p]) ELSE comparable(side, p, keys[p])]

KeySeqs == UNION {[1..n -> Keys] : n \in 0..MaxLen}

\* The engine reads a key through == and hash alone, so renaming the keys of
\* both inputs renames nothing in the result but texts.  Inputs are taken up
\* to that renaming: over A followed by B, the keys make their first
\* appearance in the order of KeyNames.
FirstOccurrenceOrder(keys) ==
    \A p \in 1..Len(keys) : \A k \in 2..NumKeys :
        keys[p] = KeyNames[k] => \E q \in 1..(p - 1) : keys[q] = KeyNames[k - 1]

\* ------------------------------------------------------------ DiffLine
LineContent(line_number, text) == [line_number |-> line_number, text |-> text]

DiffLine(state, left, right) ==
    [state |-> state, left |-> left, right |-> right,
     moved_from |-> None, moved_to |-> None]

MovedBlock(source_start, source_end, destination_start, destination_end) ==
    [source_start |-> source_start, source_end |-> source_end,
     destination_start |-> destination_start,
     destination_end |-> destination_end]

\* --------------------------------------------------- DiffStatistics
DefaultStatistics == [additions |-> 0, deletions |-> 0, moves |-> 0, unchanged |-> 0]

\* a tally that predates the Moved state: every matched line is unchanged
count_line_unmoved(stats, s) ==
    CASE s = "Added"     -> [stats EXCEPT !.additions = @ + 1]
      [] s = "Deleted"   -> [stats EXCEPT !.deletions = @ + 1]
      [] s = "Unchanged" -> [stats EXCEPT !.unchanged = @ + 1]
      [] s = "Moved"     -> [stats EXCEPT !.unchanged = @ + 1]

\* match line.state { ... }: one line's contribution to the statistics
count_line(stats, s) ==
    CASE s = "Added"     -> [stats EXCEPT !.additions = @ + 1]
      [] s = "Deleted"   -> [stats EXCEPT !.deletions = @ + 1]
      [] s = "Unchanged" -> [stats EXCEPT !.unchanged = @ + 1]
      [] s = "Moved"     -> [stats EXCEPT !.moves = @ + 1]

RECURSIVE from_lines_loop(_, _, _)
from_lines_loop(lines, k, stats) ==
    IF k >= Len(lines) THEN stats
    ELSE from_lines_loop(lines, k + 1, count_line(stats, At(lines, k).state))

from_lines(lines) == from_lines_loop(lines, 0, DefaultStatistics)

total_changes(stats) == stats.additions + stats.deletions + stats.moves

with_moved_blocks(lines, moved_blocks) ==
    [lines |-> lines, statistics |-> from_lines(lines), moved_blocks |-> moved_blocks]

\* ------------------------------------------------- build_symbol_table
EmptyTable == [k \in {} |-> <<0, 0>>]

\* table.entry(line).or_insert((0, 0))
Entry(t, line) ==
    IF TableKey(line) \in DOMAIN t THEN t
    ELSE [k \in DOMAIN t \cup {TableKey(line)} |->
            IF k \in DOMAIN t THEN t[k] ELSE <<0, 0>>]

RECURSIVE count_side(_, _, _, _)
count_side(t, lines, k, side) ==
    IF k >= Len(lines) THEN t
    ELSE LET line == At(lines, k)
             e == Entry(t, line)
         IN count_side([e EXCEPT ![TableKey(line)][side] = @ + 1], lines, k + 1, side)

build_symbol_table(A, B) == count_side(count_side(EmptyTable, A, 0, 1), B, 0, 2)

\* table.get(line)
TableGet(t, line) == IF TableKey(line) \in DOMAIN t THEN Some(t[TableKey(line)]) ELSE None

\* ------------------------------------------------- link_unique_anchors
\* a search that counts positions from one
RECURSIVE position_from_one(_, _, _)
position_from_one(lines, line, j) ==
    IF j >= Len(lines) THEN None
    ELSE IF LineEq(At(lines, j), line) THEN Some(j + 1)
    ELSE position_from_one(lines, line, j + 1)

\* lines_b.iter().position(|l| l == line)
RECURSIVE position(_, _, _)
position(lines, line, j) ==
    IF j >= Len(lines) THEN None
    ELSE IF LineEq(At(lines, j), line) THEN Some(j)
    ELSE position(lines, line, j + 1)

RECURSIVE unique_loop(_, _, _, _, _)
unique_loop(A, B, t, i, link) ==
    IF i >= Len(A) THEN link
    ELSE LET line == At(A, i)
             j == position(B, line, 0)
         IN IF TableGet(t, line) = Some(<<1, 1>>) /\ IsSome(j)
            THEN unique_loop(A, B, t, i + 1,
                    [oa |-> SetAt(link.oa, i, Some(Unwrap(j))),
                     na |-> SetAt(link.na, Unwrap(j), Some(i))])
            ELSE unique_loop(A, B, t, i + 1, link)

\* a pass that links nothing
link_no_anchors(A, B, t) ==
    [oa |-> Repeat(None, Len(A)), na |-> Repeat(None, Len(B))]

link_unique_anchors(A, B, t) ==
    unique_loop(A, B, t, 0, [oa |-> Repeat(None, Len(A)), na |-> Repeat(None, Len(B))])

\* --------------------------------------------- link_non_unique_matches
\* the scan without the na[j].is_none() test: the first equal line, taken or not
first_equal(B, line_a, na_, j) == position(B, line_a, j)

\* the inner scan: the first j with na[j] unset and an equal line
RECURSIVE first_free(_, _, _, _)
first_free(B, line_a, na_, j) ==
    IF j >= Len(B) THEN None
    ELSE IF At(na_, j) = None /\ LineEq(line_a, At(B, j)) THEN Some(j)
    ELSE first_free(B, line_a, na_, j + 1)

RECURSIVE non_unique_loop(_, _, _, _, _)
non_unique_loop(A, B, t, i, link) ==
    IF i >= Len(A) THEN link
    ELSE IF IsSome(At(link.oa, i)) THEN non_unique_loop(A, B, t, i + 1, link)
    ELSE LET line_a == At(A, i)
             counts == TableGet(t, line_a)
         IN IF counts = None THEN non_unique_loop(A, B, t, i + 1, link)
            ELSE IF Unwrap(counts)[1] = 0 \/ Unwrap(counts)[2] = 0
                 THEN non_unique_loop(A, B, t, i + 1, link)
            ELSE LET j == first_free(B, line_a, link.na, 0)
                 IN IF IsSome(j)
                    THEN non_unique_loop(A, B, t, i + 1,
                            [oa |-> SetAt(link.oa, i, Some(Unwrap(j))),
                             na |-> SetAt(link.na, Unwrap(j), Some(i))])
                    ELSE non_unique_loop(A, B, t, i + 1, link)

\* a pass that leaves the repeated keys unlinked
link_no_duplicates(A, B, t, oa_, na_) == [oa |-> oa_, na |-> na_]

link_non_unique_matches(A, B, t, oa_, na_) ==
    non_unique_loop(A, B, t, 0, [oa |-> oa_, na |-> na_])

\* ------------------------------ longest_increasing_subsequence_indices
\* the comparison turned round: the search keeps decreasing runs
tail_above(sequence, tail_indices, mid, value) ==
    At(sequence, At(tail_indices, mid)) > value

\* sequence[tail_indices[mid]] < value
tail_below(sequence, tail_indices, mid, value) ==
    At(sequence, At(tail_indices, mid)) < value

RECURSIVE lis_search(_, _, _, _, _)
lis_search(sequence, tail_indices, value, left, right) ==
    IF left < right
    THEN LET mid == (left + right) \div 2
         IN IF tail_below(sequence, tail_indices, mid, value)
            THEN lis_search(sequence, tail_indices, value, mid + 1, right)
            ELSE lis_search(sequence, tail_indices, value, left, mid)
    ELSE left

RECURSIVE lis_scan(_, _, _)
lis_scan(sequence, i, st) ==
    IF i >= Len(sequence) THEN st
    ELSE LET value == At(sequence, i)
             left == lis_search(sequence, st.tail_indices, value, 0, st.length)
             preds == IF left > 0
                      THEN SetAt(st.predecessors, i, Some(At(st.tail_indices, left - 1)))
                      ELSE st.predecessors
         IN lis_scan(sequence, i + 1,
                [tail_indices |-> SetAt(st.tail_indices, left, i),
                 predecessors |-> preds,
                 length |-> IF left + 1 > st.length THEN left + 1 ELSE st.length])

\* a reconstruction that stops at the last index of the subsequence
lis_last(predecessors, k) == <<k>>

\* the reconstruction loop, already reversed: predecessors first
RECURSIVE lis_walk(_, _)
lis_walk(predecessors, k) ==
    IF IsSome(At(predecessors, k))
    THEN Append(lis_walk(predecessors, Unwrap(At(predecessors, k))), k)
    ELSE <<k>>

\* tail_indices, predecessors and length after the scan of the sequence
lis_tables(sequence) ==
    lis_scan(sequence, 0,
             [tail_indices |-> Repeat(0, Len(sequence)),
              predecessors |-> Repeat(None, Len(sequence)),
              length |-> 0])

longest_increasing_subsequence_indices(sequence) ==
    IF sequence = <<>> THEN <<>>
    ELSE LET st == lis_tables(sequence)
         IN IF st.length = 0 THEN <<>>
            ELSE lis_walk(st.predecessors, At(st.tail_indices, st.length - 1))

\* ------------------------------------------------ classify_matched_lines
\* matched_info entries are <<line_idx, old_idx, new_idx>>, all 0-based;
\* current_block is Option<(source_start, source_end, dest_start, dest_end)>.
\* the movement fields left 0-based
mark_moved_zero_based(line, old_idx, new_idx) ==
    [line EXCEPT !.state = "Moved",
                 !.moved_from = Some(old_idx),
                 !.moved_to = Some(new_idx)]

\* the non-LIS arm: state and movement fields of a moved line
mark_moved(line, old_idx, new_idx) ==
    [line EXCEPT !.state = "Moved",
                 !.moved_from = Some(old_idx + 1),
                 !.moved_to = Some(new_idx + 1)]

\* the LIS arm: state and movement fields of a backbone line
mark_unchanged(line) ==
    [line EXCEPT !.state = "Unchanged", !.moved_from = None, !.moved_to = None]

\* a block that starts over at every moved line
restart_block(current_block, source_line, dest_line) ==
    Some(<<source_line, source_line, dest_line, dest_line>>)

\* match current_block: an open block keeps its start and takes the line as
\* its end, otherwise the line opens a block
extend_block(current_block, source_line, dest_line) ==
    IF IsSome(current_block)
    THEN Some(<<Unwrap(current_block)[1], source_line,
                Unwrap(current_block)[3], dest_line>>)
    ELSE Some(<<source_line, source_line, dest_line, dest_line>>)

RECURSIVE classify_loop(_, _, _, _)
classify_loop(matched_info, is_in_lis, idx, st) ==
    IF idx >= Len(matched_info) THEN st
    ELSE LET line_idx == At(matched_info, idx)[1]
             old_idx == At(matched_info, idx)[2]
             new_idx == At(matched_info, idx)[3]
             line == At(st.lines, line_idx)
         IN IF At(is_in_lis, idx)
            THEN classify_loop(matched_info, is_in_lis, idx + 1,
                    [lines |-> SetAt(st.lines, line_idx, mark_unchanged(line)),
                     moved_blocks |-> IF IsSome(st.current_block)
                                      THEN Append(st.moved_blocks,
                                              MovedBlock(Unwrap(st.current_block)[1],
                                                         Unwrap(st.current_block)[2],
                                                         Unwrap(st.current_block)[3],
                                                         Unwrap(st.current_block)[4]))
                                      ELSE st.moved_blocks,
                     current_block |-> None])
            ELSE LET source_line == old_idx + 1
                     dest_line == new_idx + 1
                 IN classify_loop(matched_info, is_in_lis, idx + 1,
                    [lines |-> SetAt(st.lines, line_idx, mark_moved(line, old_idx, new_idx)),
                     moved_blocks |-> st.moved_blocks,
                     current_block |->
                        extend_block(st.current_block, source_line, dest_line)])

\* a classifier that forgets the block still open at the end of the matches
classify_closed_blocks(lines, matched_info) ==
    IF matched_info = <<>> THEN [lines |-> lines, moved_blocks |-> <<>>]
    ELSE LET sequence == [k \in 1..Len(matched_info) |-> matched_info[k][2]]
             lis_positions == longest_increasing_subsequence_indices(sequence)
             is_in_lis == [k \in 1..Len(matched_info) |->
                             \E p \in 1..Len(lis_positions) : lis_positions[p] = k - 1]
             st == classify_loop(matched_info, is_in_lis, 0,
                      [lines |-> lines, moved_blocks |-> <<>>, current_block |-> None])
         IN [lines |-> st.lines, moved_blocks |-> st.moved_blocks]

classify_matched_lines(lines, matched_info) ==
    IF matched_info = <<>> THEN [lines |-> lines, moved_blocks |-> <<>>]
    ELSE LET sequence == [k \in 1..Len(matched_info) |-> matched_info[k][2]]
             lis_positions == longest_increasing_subsequence_indices(sequence)
             is_in_lis == [k \in 1..Len(matched_info) |->
                             \E p \in 1..Len(lis_positions) : lis_positions[p] = k - 1]
             st == classify_loop(matched_info, is_in_lis, 0,
                      [lines |-> lines, moved_blocks |-> <<>>, current_block |-> None])
         IN [lines |-> st.lines,
             moved_blocks |-> IF IsSome(st.current_block)
                              THEN Append(st.moved_blocks,
                                      MovedBlock(Unwrap(st.current_block)[1],
                                                 Unwrap(st.current_block)[2],
                                                 Unwrap(st.current_block)[3],
                                                 Unwrap(st.current_block)[4]))
                              ELSE st.moved_blocks]

\* ------------------------------------------------------ build_diff_lines
\* a lookup whose bounds test starts one too late
GetFlatFromOne(v, i) == IF i > 0 /\ i < Len(v) THEN At(v, i) ELSE None

\* v.get(i).copied().flatten() on a Vec<Option<usize>>
GetFlat(v, i) == IF i >= 0 /\ i < Len(v) THEN At(v, i) ELSE None

\* a deletion that reports the 0-based index as its line number
DeletedLineZeroBased(A, i) ==
    DiffLine("Deleted", Some(LineContent(i, At(A, i).original_text)), None)

\* DiffLine::new(DiffState::Deleted, Some(LineContent::new(i_ptr + 1, ..)), None)
DeletedLine(A, i) ==
    DiffLine("Deleted", Some(LineContent(i + 1, At(A, i).original_text)), None)

\* an addition that shows the text of the previous line of B
AddedLineShifted(B, j) ==
    DiffLine("Added", None,
             Some(LineContent(j + 1, At(B, IF j > 0 THEN j - 1 ELSE j).original_text)))

\* DiffLine::new(DiffState::Added, None, Some(LineContent::new(j + 1, ..)))
AddedLine(B, j) ==
    DiffLine("Added", None, Some(LineContent(j + 1, At(B, j).original_text)))

\* a flush that stops at the first pending old line, linked ahead or not
stops_always(mapped, j) == TRUE

\* Some(mapped_j) if mapped_j >= j => break
stops_flush(mapped, j) == IsSome(mapped) /\ Unwrap(mapped) >= j

\* while i_ptr < i_match { ... }: deletions for old lines before the match
RECURSIVE flush_before(_, _, _, _, _)
flush_before(A, oa_, i_match, j, st) ==
    IF st.i_ptr < i_match
    THEN IF At(st.processed_old, st.i_ptr)
         THEN flush_before(A, oa_, i_match, j, [st EXCEPT !.i_ptr = @ + 1])
         ELSE LET mapped == At(oa_, st.i_ptr)
              IN IF stops_flush(mapped, j) THEN st
                 ELSE IF IsSome(mapped) /\ Unwrap(mapped) < j
                 THEN flush_before(A, oa_, i_match, j,
                         [st EXCEPT !.processed_old = SetAt(@, st.i_ptr, TRUE),
                                    !.i_ptr = @ + 1])
                 ELSE flush_before(A, oa_, i_match, j,
                         [st EXCEPT !.result_lines = Append(@, DeletedLine(A, st.i_ptr)),
                                    !.processed_old = SetAt(@, st.i_ptr, TRUE),
                                    !.i_ptr = @ + 1])
    ELSE st

\* a pointer that runs to the end of A after the first match
skip_to_end(A, st) == [st EXCEPT !.i_ptr = Len(A)]

\* while i_ptr < lines_a.len() && processed_old[i_ptr] { i_ptr += 1 }
RECURSIVE skip_processed(_, _)
skip_processed(A, st) ==
    IF st.i_ptr < Len(A) /\ At(st.processed_old, st.i_ptr)
    THEN skip_processed(A, [st EXCEPT !.i_ptr = @ + 1])
    ELSE st

\* a match that leaves its old line unprocessed
emit_match_unmarked(A, B, oa_, i_match, j, st) ==
    LET f == flush_before(A, oa_, i_match, j, st)
        line_index == Len(f.result_lines)
        m == [f EXCEPT
                !.result_lines = Append(@,
                    DiffLine("Unchanged",
                             Some(LineContent(i_match + 1, At(A, i_match).original_text)),
                             Some(LineContent(j + 1, At(B, j).original_text)))),
                !.matched_info = Append(@, <<line_index, i_match, j>>),
                !.i_ptr = IF f.i_ptr = i_match THEN f.i_ptr + 1 ELSE f.i_ptr]
    IN m

\* the body of `for j in 0..lines_b.len()` when position j is matched
emit_match(A, B, oa_, i_match, j, st) ==
    LET f == flush_before(A, oa_, i_match, j, st)
        line_index == Len(f.result_lines)
        m == [f EXCEPT
                !.result_lines = Append(@,
                    DiffLine("Unchanged",
                             Some(LineContent(i_match + 1, At(A, i_match).original_text)),
                             Some(LineContent(j + 1, At(B, j).original_text)))),
                !.matched_info = Append(@, <<line_index, i_match, j>>),
                !.processed_old = SetAt(@, i_match, TRUE),
                !.i_ptr = IF f.i_ptr = i_match THEN f.i_ptr + 1 ELSE f.i_ptr]
    IN skip_processed(A, m)

RECURSIVE scan_b(_, _, _, _, _, _)
scan_b(A, B, oa_, na_, j, st) ==
    IF j >= Len(B) THEN st
    ELSE LET cand == GetFlat(na_, j)
             matched_old ==
                IF IsSome(cand)
                   /\ GetFlat(oa_, Unwrap(cand)) = Some(j)
                   /\ ~At(st.processed_old, Unwrap(cand))
                THEN cand ELSE None
         IN IF IsSome(matched_old)
            THEN scan_b(A, B, oa_, na_, j + 1,
                        emit_match(A, B, oa_, Unwrap(matched_old), j, st))
            ELSE scan_b(A, B, oa_, na_, j + 1,
                    [st EXCEPT !.result_lines = Append(@, AddedLine(B, j))])

\* a build that forgets the old lines left after the scan of B
flush_nothing(A, st) == st

\* while i_ptr < lines_a.len() { ... }: deletions for the remaining old lines
RECURSIVE flush_remaining(_, _)
flush_remaining(A, st) ==
    IF st.i_ptr < Len(A)
    THEN IF At(st.processed_old, st.i_ptr)
         THEN flush_remaining(A, [st EXCEPT !.i_ptr = @ + 1])
         ELSE flush_remaining(A,
                [st EXCEPT !.result_lines = Append(@, DeletedLine(A, st.i_ptr)),
                           !.processed_old = SetAt(@, st.i_ptr, TRUE),
                           !.i_ptr = @ + 1])
    ELSE st

\* an alignment that ends with the scan of B
align_scan_only(A, B, oa_, na_) ==
    scan_b(A, B, oa_, na_, 0,
           [result_lines |-> <<>>, matched_info |-> <<>>,
            processed_old |-> Repeat(FALSE, Len(A)), i_ptr |-> 0])

\* result_lines, matched_info, processed_old and i_ptr when the alignment
\* is complete, before the matched lines are classified
align(A, B, oa_, na_) ==
    LET st0 == [result_lines |-> <<>>, matched_info |-> <<>>,
                processed_old |-> Repeat(FALSE, Len(A)), i_ptr |-> 0]
    IN flush_remaining(A, scan_b(A, B, oa_, na_, 0, st0))

build_diff_lines(A, B, oa_, na_) ==
    LET st == align(A, B, oa_, na_)
    IN classify_matched_lines(st.result_lines, st.matched_info)

\* ------------------------------------------------------------ compute_diff
compute_diff(A, B) ==
    LET t == build_symbol_table(A, B)
        u == link_unique_anchors(A, B, t)
        l == link_non_unique_matches(A, B, t, u.oa, u.na)
        d == build_diff_lines(A, B, l.oa, l.na)
    IN with_moved_blocks(d.lines, d.moved_blocks)

\* ======================================================================
\* The presenter, AppLogic (src/src/app_logic/handler.rs)
\* ======================================================================
\* Result<T, E>
Ok(x) == [ok |-> TRUE, value |-> x]
Err(e) == [ok |-> FALSE, error |-> e]

\* ---------------------------------------------------------------- ids.rs
CONTROL_ID_TIMESTAMP_INPUT == "CONTROL_ID_TIMESTAMP_INPUT"
CONTROL_ID_LEFT_VIEWER == "CONTROL_ID_LEFT_VIEWER"
CONTROL_ID_RIGHT_VIEWER == "CONTROL_ID_RIGHT_VIEWER"
PANEL_INPUT_BAR == "PANEL_INPUT_BAR"
ControlIds ==
    {CONTROL_ID_TIMESTAMP_INPUT, CONTROL_ID_LEFT_VIEWER,
     CONTROL_ID_RIGHT_VIEWER, PANEL_INPUT_BAR}

MENU_ACTION_OPEN_LEFT == "MENU_ACTION_OPEN_LEFT"
MENU_ACTION_OPEN_RIGHT == "MENU_ACTION_OPEN_RIGHT"
MENU_ACTION_EXIT == "MENU_ACTION_EXIT"
MenuActionIds ==
    {MENU_ACTION_OPEN_LEFT, MENU_ACTION_OPEN_RIGHT, MENU_ACTION_EXIT, "MENU_ACTION_ABOUT"}

WindowIds == {"w1", "w2"}

MAX_TIMESTAMP_HISTORY == 5

\* ------------------------------------------------ files and their lines
\* A line of a log file is a stamp followed by a body; the text a reader
\* sees is the two joined.
LogLine(stamp, body) == [stamp |-> stamp, body |-> body]
Text(line) == line.stamp \o line.body

FilePaths == {"logs/left.log", "logs/right.log"}

\* what the two files hold: the same bodies in another order, each line
\* under its own stamp
FileContents(path) ==
    CASE path = "logs/left.log" ->
            Some(<<LogLine("[1] ", "a"), LogLine("[2] ", "b")>>)
      [] path = "logs/right.log" ->
            Some(<<LogLine("[3] ", "b"), LogLine("[4] ", "a")>>)
      [] OTHER -> None

\* The surroundings of one event: the paths File::open fails on while the
\* event is handled, and whether the injected parser reports a failure.
Environment(unreadable, parser_fails) ==
    [unreadable |-> unreadable, parser_fails |-> parser_fails]

Calm == Environment({}, FALSE)

Environments ==
    {Calm,
     Environment({"logs/left.log"}, FALSE),
     Environment({"logs/right.log"}, FALSE),
     Environment({}, TRUE)}

read_file_lines(env, path) ==
    IF path \notin env.unreadable /\ IsSome(FileContents(path))
    THEN Ok(Unwrap(FileContents(path)))
    ELSE Err("No such file or directory")

\* Path::parent of the paths above
Parent(path) == Some("logs")

\* ------------------------------------------------------ regex::Regex
\* the pattern that matches a stamp and a pattern that does not compile
StampPattern == "^\\[\\d+\\] "
BrokenPattern == "["

\* Regex::new(pattern).is_ok()
RegexIsOk(pattern) == pattern # BrokenPattern

\* regex.replace_all(line, "")
replace_all(pattern, line) ==
    IF pattern = StampPattern THEN line.body ELSE Text(line)

\* ---------------------------------- TimestampParserOperations (injected)
\* strip_timestamps of the core parser; the presenter holds the parser as a
\* trait object, whose implementation may also report ProcessingFailed
strip_timestamps(env, lines, pattern) ==
    IF env.parser_fails
    THEN Err([kind |-> "ProcessingFailed", pattern |-> "", message |-> "unavailable"])
    ELSE IF pattern = ""
    THEN Ok([k \in 1..Len(lines) |-> Text(lines[k])])
    ELSE IF ~RegexIsOk(pattern)
    THEN Err([kind |-> "InvalidPattern", pattern |-> pattern, message |-> "regex parse error"])
    ELSE Ok([k \in 1..Len(lines) |-> replace_all(pattern, lines[k])])

\* ----------------------------------------------------------- AppSettings
AppSettings(left_file_path, right_file_path, timestamp_pattern, timestamp_history) ==
    [left_file_path |-> left_file_path,
     right_file_path |-> right_file_path,
     timestamp_pattern |-> timestamp_pattern,
     timestamp_history |-> timestamp_history]

\* ------------------------------------------------------- PlatformCommand
ShowOpenFileDialog(window_id, title, initial_dir) ==
    [command |-> "ShowOpenFileDialog", window_id |-> window_id,
     title |-> title, initial_dir |-> initial_dir]

CloseWindow(window_id) == [command |-> "CloseWindow", window_id |-> window_id]

SetInputText(window_id, control_id, text) ==
    [command |-> "SetInputText", window_id |-> window_id,
     control_id |-> control_id, text |-> text]

SetViewerContent(window_id, control_id, text) ==
    [command |-> "SetViewerContent", window_id |-> window_id,
     control_id |-> control_id, text |-> text]

ShowMessageBox(window_id, title, message, severity) ==
    [command |-> "ShowMessageBox", window_id |-> window_id,
     title |-> title, message |-> message, severity |-> severity]

ApplyStyleToControl(window_id, control_id, style_id) ==
    [command |-> "ApplyStyleToControl", window_id |-> window_id,
     control_id |-> control_id, style_id |-> style_id]

SetScrollPosition(window_id, control_id, vertical_pos, horizontal_pos) ==
    [command |-> "SetScrollPosition", window_id |-> window_id,
     control_id |-> control_id, vertical_pos |-> vertical_pos,
     horizontal_pos |-> horizontal_pos]

\* ------------------------------------------------------------- AppLogic
\* AppLogic::new
NewAppLogic ==
    [left_file_path |-> None,
     right_file_path |-> None,
     timestamp_pattern |-> "",
     timestamp_history |-> <<>>,
     diff_lines |-> <<>>,
     pending_commands |-> <<>>,
     active_window |-> None,
     pending_file_dialog |-> None,
     timestamp_pattern_is_valid |-> TRUE,
     is_syncing_scroll |-> FALSE]

\* A handler works on the presenter and on the log of what it has done to
\* its collaborators so far: commands enqueued, settings loaded and saved,
\* the preparation of a diff entered, the engine invoked.
Work(a) == [app |-> a, log |-> <<>>]

Note(w, entry) == [w EXCEPT !.log = Append(@, entry)]

enqueue_command(w, command) ==
    Note([w EXCEPT !.app.pending_commands = Append(@, command)],
         [effect |-> "enqueue", command |-> command])

\* ------------------------------------------------- build_viewer_text
\* the arrow U+2194 of the Moved prefix is written <->
format_line_for_side(state, content) ==
    LET prefix == CASE state = "Added" -> "+"
                    [] state = "Deleted" -> "-"
                    [] state = "Moved" -> "<->"
                    [] OTHER -> " "
        text == IF IsSome(content) THEN Unwrap(content).text ELSE ""
    IN prefix \o " " \o text

RECURSIVE join(_, _)
join(buffer, separator) ==
    IF buffer = <<>> THEN ""
    ELSE IF Len(buffer) = 1 THEN buffer[1]
    ELSE buffer[1] \o separator \o join(Tail(buffer), separator)

build_viewer_text(lines) ==
    LET left_buffer == [k \in 1..Len(lines) |->
                           format_line_for_side(lines[k].state, lines[k].left)]
        right_buffer == [k \in 1..Len(lines) |->
                           format_line_for_side(lines[k].state, lines[k].right)]
    IN <<join(left_buffer, "\r\n"), join(right_buffer, "\r\n")>>

\* the right viewer's update goes out first
enqueue_diff_commands_right_first(w, window_id, lines) ==
    LET texts == build_viewer_text(lines)
        w1 == enqueue_command(w, SetViewerContent(window_id, CONTROL_ID_RIGHT_VIEWER, texts[2]))
    IN enqueue_command(w1, SetViewerContent(window_id, CONTROL_ID_LEFT_VIEWER, texts[1]))

enqueue_diff_commands(w, window_id, lines) ==
    LET texts == build_viewer_text(lines)
        w1 == enqueue_command(w, SetViewerContent(window_id, CONTROL_ID_LEFT_VIEWER, texts[1]))
    IN enqueue_command(w1, SetViewerContent(window_id, CONTROL_ID_RIGHT_VIEWER, texts[2]))

\* DiffWorkflowError
Io(path, source) == [kind |-> "Io", path |-> path, source |-> source]
Timestamp(error) == [kind |-> "Timestamp", error |-> error]

enqueue_error_dialog(w, window_id, error) ==
    LET message ==
          IF error.kind = "Io"
          THEN "Failed to read '" \o error.path \o "': " \o error.source
          ELSE IF error.error.kind = "InvalidPattern"
          THEN "The timestamp pattern '" \o error.error.pattern
                   \o "' is invalid: " \o error.error.message
          ELSE "Failed to strip timestamps: " \o error.error.message
    IN enqueue_command(w, ShowMessageBox(window_id, "Diff Failed", message, "Error"))

build_comparable_lines(original, stripped) ==
    [k \in 1..Len(original) |-> ComparableLine(Text(original[k]), stripped[k])]

\* a preparation that goes on to the engine whatever came before: a file it
\* could not read counts as empty, a line it could not strip stays as it is
execute_diff_unchecked(w, left_path, right_path, env) ==
    LET left_lines == read_file_lines(env, left_path)
        right_lines == read_file_lines(env, right_path)
        w1 == Note(w, [effect |-> "read_file_lines", path |-> left_path,
                       ok |-> left_lines.ok])
        w2 == Note(w1, [effect |-> "read_file_lines", path |-> right_path,
                        ok |-> right_lines.ok])
        lines_of(r) == IF r.ok THEN r.value ELSE <<>>
        stripped_left ==
            strip_timestamps(env, lines_of(left_lines), w.app.timestamp_pattern)
        stripped_right ==
            strip_timestamps(env, lines_of(right_lines), w.app.timestamp_pattern)
        w3 == Note(w2, [effect |-> "strip_timestamps", ok |-> stripped_left.ok])
        w4 == Note(w3, [effect |-> "strip_timestamps", ok |-> stripped_right.ok])
        texts_of(lines) == [k \in 1..Len(lines) |-> Text(lines[k])]
        comparable_left ==
            build_comparable_lines(lines_of(left_lines),
                IF stripped_left.ok THEN stripped_left.value
                ELSE texts_of(lines_of(left_lines)))
        comparable_right ==
            build_comparable_lines(lines_of(right_lines),
                IF stripped_right.ok THEN stripped_right.value
                ELSE texts_of(lines_of(right_lines)))
    IN [w |-> Note(w4, [effect |-> "compute_diff",
                        lines_a |-> comparable_left, lines_b |-> comparable_right]),
        result |-> Ok(compute_diff(comparable_left, comparable_right).lines)]

\* execute_diff: read both files, strip both, then call the engine; the
\* first failure is returned and nothing after it runs
execute_diff(w, left_path, right_path, env) ==
    LET left_lines == read_file_lines(env, left_path)
        w1 == Note(w, [effect |-> "read_file_lines", path |-> left_path,
                       ok |-> left_lines.ok])
    IN IF ~left_lines.ok
       THEN [w |-> w1, result |-> Err(Io(left_path, left_lines.error))]
       ELSE
         LET right_lines == read_file_lines(env, right_path)
             w2 == Note(w1, [effect |-> "read_file_lines", path |-> right_path,
                             ok |-> right_lines.ok])
         IN IF ~right_lines.ok
            THEN [w |-> w2, result |-> Err(Io(right_path, right_lines.error))]
            ELSE
              LET stripped_left ==
                      strip_timestamps(env, left_lines.value, w.app.timestamp_pattern)
                  w3 == Note(w2, [effect |-> "strip_timestamps",
                                  ok |-> stripped_left.ok])
              IN IF ~stripped_left.ok
                 THEN [w |-> w3, result |-> Err(Timestamp(stripped_left.error))]
                 ELSE
                   LET stripped_right ==
                           strip_timestamps(env, right_lines.value,
                                            w.app.timestamp_pattern)
                       w4 == Note(w3, [effect |-> "strip_timestamps",
                                       ok |-> stripped_right.ok])
                   IN IF ~stripped_right.ok
                      THEN [w |-> w4,
                            result |-> Err(Timestamp(stripped_right.error))]
                      ELSE
                        LET comparable_left ==
                                build_comparable_lines(left_lines.value,
                                                       stripped_left.value)
                            comparable_right ==
                                build_comparable_lines(right_lines.value,
                                                       stripped_right.value)
                        IN [w |-> Note(w4, [effect |-> "compute_diff",
                                            lines_a |-> comparable_left,
                                            lines_b |-> comparable_right]),
                            result |-> Ok(compute_diff(comparable_left,
                                                       comparable_right).lines)]

\* match self.execute_diff(..): Ok stores the lines and enqueues the viewer
\* updates, Err enqueues the error dialog
diff_executed(window_id, r) ==
    IF r.result.ok
    THEN enqueue_diff_commands([r.w EXCEPT !.app.diff_lines = r.result.value],
                               window_id, r.result.value)
    ELSE enqueue_error_dialog(r.w, window_id, r.result.error)

\* trigger_diff_if_ready: three early returns, then the preparation; its
\* entry is noted with the presenter as it then is
trigger_diff_if_ready(w, env) ==
    IF ~w.app.timestamp_pattern_is_valid THEN w
    ELSE IF ~IsSome(w.app.active_window) THEN w
    ELSE IF ~(IsSome(w.app.left_file_path) /\ IsSome(w.app.right_file_path)) THEN w
    ELSE diff_executed(Unwrap(w.app.active_window),
            execute_diff(Note(w, [effect |-> "execute_diff", at |-> w.app]),
                         Unwrap(w.app.left_file_path),
                         Unwrap(w.app.right_file_path), env))

\* a validation that tells the window at every call
validate_timestamp_pattern_always_styles(w) ==
    LET is_valid == w.app.timestamp_pattern = "" \/ RegexIsOk(w.app.timestamp_pattern)
        w1 == [w EXCEPT !.app.timestamp_pattern_is_valid = is_valid]
    IN [w |-> IF IsSome(w1.app.active_window)
              THEN enqueue_command(w1,
                      ApplyStyleToControl(Unwrap(w1.app.active_window),
                          CONTROL_ID_TIMESTAMP_INPUT,
                          IF is_valid THEN "DefaultInput" ELSE "DefaultInputError"))
              ELSE w1,
        is_valid |-> is_valid]

\* validate_timestamp_pattern: the flag follows the pattern; a change of the
\* flag restyles the input when a window is active
validate_timestamp_pattern(w) ==
    LET is_valid == w.app.timestamp_pattern = "" \/ RegexIsOk(w.app.timestamp_pattern)
    IN IF is_valid # w.app.timestamp_pattern_is_valid
       THEN LET w1 == [w EXCEPT !.app.timestamp_pattern_is_valid = is_valid]
            IN [w |-> IF IsSome(w1.app.active_window)
                      THEN enqueue_command(w1,
                              ApplyStyleToControl(Unwrap(w1.app.active_window),
                                  CONTROL_ID_TIMESTAMP_INPUT,
                                  IF is_valid THEN "DefaultInput" ELSE "DefaultInputError"))
                      ELSE w1,
                is_valid |-> is_valid]
       ELSE [w |-> w, is_valid |-> is_valid]

\* --------------------------------------------------- timestamp history
\* VecDeque: iter().position, remove, push_front, pop_back
RECURSIVE position_in(_, _, _)
position_in(history, pattern, pos) ==
    IF pos >= Len(history) THEN None
    ELSE IF At(history, pos) = pattern THEN Some(pos)
    ELSE position_in(history, pattern, pos + 1)

remove(history, pos) ==
    [k \in 1..(Len(history) - 1) |-> IF k <= pos THEN history[k] ELSE history[k + 1]]

push_front(history, pattern) == <<pattern>> \o history

pop_back(history) == SubSeq(history, 1, Len(history) - 1)

\* while history.len() > MAX_TIMESTAMP_HISTORY { history.pop_back(); }
RECURSIVE truncate(_)
truncate(history) ==
    IF Len(history) > MAX_TIMESTAMP_HISTORY THEN truncate(pop_back(history))
    ELSE history

record_timestamp_pattern_history(a) ==
    LET pattern == a.timestamp_pattern
    IN IF pattern = "" THEN a
       ELSE LET pos == position_in(a.timestamp_history, pattern, 0)
                removed == IF IsSome(pos) THEN remove(a.timestamp_history, Unwrap(pos))
                           ELSE a.timestamp_history
            IN [a EXCEPT !.timestamp_history = truncate(push_front(removed, pattern))]

\* ------------------------------------------------------------ settings
\* load_and_apply_settings; response is what load_settings returned
load_and_apply_settings(w, window_id, response, env) ==
    LET w0 == Note(w, [effect |-> "load_settings", response |-> response])
    IN IF response.ok
       THEN LET settings == response.value
                a1 == [w0.app EXCEPT
                         !.left_file_path = settings.left_file_path,
                         !.right_file_path = settings.right_file_path,
                         !.timestamp_pattern = settings.timestamp_pattern,
                         !.timestamp_history = truncate(settings.timestamp_history)]
                a2 == IF /\ a1.timestamp_pattern # ""
                         /\ ~\E k \in 1..Len(a1.timestamp_history) :
                               a1.timestamp_history[k] = a1.timestamp_pattern
                      THEN record_timestamp_pattern_history(a1)
                      ELSE a1
                w1 == enqueue_command([w0 EXCEPT !.app = a2],
                         SetInputText(window_id, CONTROL_ID_TIMESTAMP_INPUT,
                                      a2.timestamp_pattern))
                w2 == validate_timestamp_pattern(w1).w
            IN trigger_diff_if_ready(w2, env)
       ELSE w0

\* a snapshot that forgets the history
persist_settings_without_history(w) ==
    Note(w, [effect |-> "save_settings",
             snapshot |-> AppSettings(w.app.left_file_path, w.app.right_file_path,
                                      w.app.timestamp_pattern, <<>>)])

persist_settings(w) ==
    Note(w, [effect |-> "save_settings",
             snapshot |-> AppSettings(w.app.left_file_path, w.app.right_file_path,
                                      w.app.timestamp_pattern,
                                      w.app.timestamp_history)])

request_exit(w) ==
    IF IsSome(w.app.active_window)
    THEN enqueue_command(persist_settings(w), CloseWindow(Unwrap(w.app.active_window)))
    ELSE w

\* ------------------------------------------------------------ file dialogs
path_for_dialog(a, dialog) ==
    IF dialog = "Left" THEN a.left_file_path ELSE a.right_file_path

request_open_file_dialog(w, dialog) ==
    IF ~IsSome(w.app.active_window) THEN w
    ELSE LET window_id == Unwrap(w.app.active_window)
             title == IF dialog = "Left" THEN "Open Left Log File"
                      ELSE "Open Right Log File"
             path == path_for_dialog(w.app, dialog)
             initial_dir == IF IsSome(path) THEN Parent(Unwrap(path)) ELSE None
         IN enqueue_command([w EXCEPT !.app.pending_file_dialog = Some(dialog)],
                            ShowOpenFileDialog(window_id, title, initial_dir))

handle_menu_action(w, action_id) ==
    IF action_id = MENU_ACTION_OPEN_LEFT THEN request_open_file_dialog(w, "Left")
    ELSE IF action_id = MENU_ACTION_OPEN_RIGHT THEN request_open_file_dialog(w, "Right")
    ELSE IF action_id = MENU_ACTION_EXIT THEN request_exit(w)
    ELSE w

handle_file_dialog_result(w, window_id, dialog_result, env) ==
    IF Some(window_id) # w.app.active_window THEN w
    ELSE IF ~IsSome(w.app.pending_file_dialog) THEN w
    ELSE LET dialog == Unwrap(w.app.pending_file_dialog)
             w1 == [w EXCEPT !.app.pending_file_dialog = None]
         IN IF IsSome(dialog_result)
            THEN trigger_diff_if_ready(
                    IF dialog = "Left"
                    THEN [w1 EXCEPT !.app.left_file_path = dialog_result]
                    ELSE [w1 EXCEPT !.app.right_file_path = dialog_result],
                    env)
            ELSE w1

handle_timestamp_input_changed(w, control_id, text, env) ==
    IF control_id # CONTROL_ID_TIMESTAMP_INPUT THEN w
    ELSE LET v == validate_timestamp_pattern([w EXCEPT !.app.timestamp_pattern = text])
         IN IF v.is_valid
            THEN trigger_diff_if_ready(
                    [v.w EXCEPT !.app = record_timestamp_pattern_history(@)], env)
            ELSE v.w

\* ---------------------------------------------------------- linked scroll
\* a scroll that leaves the guard flag raised
control_scrolled_leaves_flag(w, window_id, control_id, vertical_pos) ==
    IF Some(window_id) # w.app.active_window \/ w.app.is_syncing_scroll THEN w
    ELSE LET target_control_id ==
                 IF control_id = CONTROL_ID_LEFT_VIEWER THEN Some(CONTROL_ID_RIGHT_VIEWER)
                 ELSE IF control_id = CONTROL_ID_RIGHT_VIEWER THEN Some(CONTROL_ID_LEFT_VIEWER)
                 ELSE None
         IN IF IsSome(target_control_id)
            THEN enqueue_command([w EXCEPT !.app.is_syncing_scroll = TRUE],
                     SetScrollPosition(window_id, Unwrap(target_control_id),
                                       vertical_pos, 0))
            ELSE w

\* the ControlScrolled arm of handle_event
control_scrolled(w, window_id, control_id, vertical_pos) ==
    IF Some(window_id) # w.app.active_window \/ w.app.is_syncing_scroll THEN w
    ELSE LET target_control_id ==
                 IF control_id = CONTROL_ID_LEFT_VIEWER THEN Some(CONTROL_ID_RIGHT_VIEWER)
                 ELSE IF control_id = CONTROL_ID_RIGHT_VIEWER THEN Some(CONTROL_ID_LEFT_VIEWER)
                 ELSE None
         IN IF IsSome(target_control_id)
            THEN LET w1 == [w EXCEPT !.app.is_syncing_scroll = TRUE]
                     w2 == enqueue_command(w1,
                              SetScrollPosition(window_id, Unwrap(target_control_id),
                                                vertical_pos, 0))
                 IN [w2 EXCEPT !.app.is_syncing_scroll = FALSE]
            ELSE w

\* ------------------------------------------------------------ handle_event
handle_event(w, ev, env) ==
    CASE ev.type = "MainWindowUISetupComplete" ->
            load_and_apply_settings([w EXCEPT !.app.active_window = Some(ev.window_id)],
                                    ev.window_id, ev.load_settings, env)
      [] ev.type = "MenuActionClicked" -> handle_menu_action(w, ev.action_id)
      [] ev.type = "FileOpenProfileDialogCompleted" ->
            handle_file_dialog_result(w, ev.window_id, ev.result, env)
      [] ev.type = "InputTextChanged" ->
            handle_timestamp_input_changed(w, ev.control_id, ev.text, env)
      [] ev.type = "ControlScrolled" ->
            control_scrolled(w, ev.window_id, ev.control_id, ev.vertical_pos)
      [] ev.type = "WindowCloseRequestedByUser" ->
            IF Some(ev.window_id) = w.app.active_window THEN request_exit(w) ELSE w
      [] ev.type = "WindowDestroyed" ->
            IF Some(ev.window_id) = w.app.active_window
            THEN [w EXCEPT !.app.active_window = None]
            ELSE w
      [] OTHER -> w

on_quit(w) == persist_settings(w)

\* pending_commands.pop_front()
try_dequeue_command(a) ==
    IF a.pending_commands = <<>> THEN [app |-> a, returned |-> None]
    ELSE [app |-> [a EXCEPT !.pending_commands = Tail(@)],
          returned |-> Some(Head(a.pending_commands))]


\* ======================================================================
\* The timestamp parser, CoreTimestampParser
\* (src/src/core/timestamp_parser.rs)
\* ======================================================================
\* One parser shared by concurrent callers.  A call of strip_timestamps is a
\* run of steps, one for each place where another caller may come between:
\* the test for the empty pattern, taking the read lock, the lookup,
\* Regex::new, taking the write lock, the insertion, and the stripping.
ParserCallers == {"t1", "t2"}

\* calls one caller makes
MaxCalls == 2

\* a pattern that compiles and matches nothing in the lines below
PlainPattern == "xyz"

ParserPatterns == {"", StampPattern, PlainPattern, BrokenPattern}

\* the slice of lines a caller hands to strip_timestamps: each caller has
\* lines of its own, as the presenter has for the left and the right file
ParserInputs(t) ==
    IF t = "t1"
    THEN <<LogLine("[1] ", "a")>>
    ELSE <<LogLine("[1] ", "a"), LogLine("", "b"), LogLine("[2] ", "c")>>

\* a compiled regex::Regex
Regex(pattern) == [as_str |-> pattern]

\* TimestampParserError::invalid_pattern(pattern, e.to_string())
invalid_pattern(pattern, message) ==
    [kind |-> "InvalidPattern", pattern |-> pattern, message |-> message]

\* RwLock<HashMap<String, Regex>>: the map, the callers holding a read
\* guard and the caller holding the write guard
EmptyCache == [p \in {} |-> Regex("")]

\* CoreTimestampParser::new
NewParser == [cache |-> EmptyCache, readers |-> {}, writer |-> None]

\* cache_len
cache_len(p) == Cardinality(DOMAIN p.cache)

\* an entry call that hands the value back and stores nothing
or_insert_unstored(cache, key, value) == [cache |-> cache, value |-> value]

\* cache.entry(key).or_insert(value).clone(): the map afterwards and the
\* value of the entry
or_insert(cache, key, value) ==
    IF key \in DOMAIN cache
    THEN [cache |-> cache, value |-> cache[key]]
    ELSE [cache |-> [k \in DOMAIN cache \cup {key} |->
                        IF k = key THEN value ELSE cache[k]],
          value |-> value]

\* a guard that lives to the end of the whole if let expression
keep_scrutinee_guard(readers, t) == readers

\* the read guard is a temporary of the scrutinee of the if let: it is
\* dropped when the else block is entered.  The tests of the file call
\* strip_timestamps on a fresh parser from one thread and read cache_len()
\* afterwards, which a guard held into the else block would not let return.
drop_scrutinee_guard(readers, t) == readers \ {t}

\* a caller between calls
IdleCall ==
    [pc |-> "idle", lines |-> <<>>, pattern |-> "", regex |-> None,
     result |-> None, made |-> 0]

ParserIdle ==
    /\ parser = NewParser
    /\ calls = [t \in ParserCallers |-> IdleCall]
    /\ served = {}

\* ------------------------------------------------------ the state machine
EmptyResult == [lines |-> <<>>, statistics |-> DefaultStatistics, moved_blocks |-> <<>>]
EmptyBuilt == [lines |-> <<>>, moved_blocks |-> <<>>]

\* the presenter as constructed, no event handled
NewEvent == [type |-> "new"]

PresenterIdle ==
    /\ app = NewAppLogic
    /\ prev = NewAppLogic
    /\ event = NewEvent
    /\ effects = <<>>

Init ==
    /\ \E ka \in KeySeqs, kb \in KeySeqs, ma \in StampModes, mb \in StampModes :
          /\ FirstOccurrenceOrder(ka \o kb)
          /\ lines_a = MakeLines("A", ma, ka)
          /\ lines_b = MakeLines("B", mb, kb)
    /\ pc = "start"
    /\ table = EmptyTable
    /\ oa = <<>>
    /\ na = <<>>
    /\ built = EmptyBuilt
    /\ result = EmptyResult
    /\ PresenterIdle
    /\ ParserIdle

BuildSymbolTable ==
    /\ pc = "start"
    /\ table' = build_symbol_table(lines_a, lines_b)
    /\ pc' = "table"
    /\ UNCHANGED <<lines_a, lines_b, oa, na, built, result, presenter_vars, parser_vars>>

LinkUniqueAnchors ==
    /\ pc = "table"
    /\ LET u == link_unique_anchors(lines_a, lines_b, table)
       IN oa' = u.oa /\ na' = u.na
    /\ pc' = "anchors"
    /\ UNCHANGED <<lines_a, lines_b, table, built, result, presenter_vars, parser_vars>>

LinkNonUniqueMatches ==
    /\ pc = "anchors"
    /\ LET l == link_non_unique_matches(lines_a, lines_b, table, oa, na)
       IN oa' = l.oa /\ na' = l.na
    /\ pc' = "linked"
    /\ UNCHANGED <<lines_a, lines_b, table, built, result, presenter_vars, parser_vars>>

BuildDiffLines ==
    /\ pc = "linked"
    /\ built' = build_diff_lines(lines_a, lines_b, oa, na)
    /\ pc' = "built"
    /\ UNCHANGED <<lines_a, lines_b, table, oa, na, result, presenter_vars, parser_vars>>

ReturnResult ==
    /\ pc = "built"
    /\ result' = with_moved_blocks(built.lines, built.moved_blocks)
    /\ pc' = "done"
    /\ UNCHANGED <<lines_a, lines_b, table, oa, na, built, presenter_vars, parser_vars>>

Next ==
    \/ BuildSymbolTable
    \/ LinkUniqueAnchors
    \/ LinkNonUniqueMatches
    \/ BuildDiffLines
    \/ ReturnResult

Spec == Init /\ [][Next]_vars

\* ------------------------------------------ the presenter's state machine
EngineIdle ==
    /\ lines_a = <<>>
    /\ lines_b = <<>>
    /\ pc = "idle"
    /\ table = EmptyTable
    /\ oa = <<>>
    /\ na = <<>>
    /\ built = EmptyBuilt
    /\ result = EmptyResult

\* the texts a user types into the timestamp input
Patterns == {"", StampPattern, BrokenPattern}

\* what load_settings may return at start-up
LoadResponses ==
    {Err("settings unavailable"),
     Ok(AppSettings(None, None, "", <<>>)),
     Ok(AppSettings(Some("logs/left.log"), Some("logs/right.log"),
                    StampPattern, <<StampPattern>>)),
     Ok(AppSettings(Some("logs/left.log"), Some("logs/right.log"),
                    BrokenPattern, <<>>))}

ScrollPositions == {0, 40}

\* the platform hands the next event over once it has taken every command
\* the last one left
Accepting == app.pending_commands = <<>>

\* the presenter and the log a handler leaves behind
Handled(ev, w) ==
    /\ app' = w.app
    /\ effects' = w.log
    /\ prev' = app
    /\ event' = ev
    /\ UNCHANGED <<engine_vars, parser_vars>>

\* the events the platform may deliver, each with the environment it is
\* handled in; only events whose handling reads files or parses lines meet
\* every environment
Delivery(ev, env) == [ev |-> ev, env |-> env]

\* the main window is set up once
MainWindowUISetupComplete(responses) ==
    IF app.active_window = None
    THEN {Delivery([type |-> "MainWindowUISetupComplete", window_id |-> "w1",
                    load_settings |-> response], env) :
             response \in responses, env \in Environments}
    ELSE {}

MenuActionClicked ==
    {Delivery([type |-> "MenuActionClicked", action_id |-> action_id], Calm) :
        action_id \in MenuActionIds}

\* the user picks the left log in the left dialog and the right log in the
\* right one, or cancels
FileOpenProfileDialogCompleted ==
    LET path == IF app.pending_file_dialog = Some("Right")
                THEN "logs/right.log" ELSE "logs/left.log"
    IN {Delivery([type |-> "FileOpenProfileDialogCompleted",
                  window_id |-> window_id,
                  result |-> IF chosen THEN Some(path) ELSE None], env) :
           window_id \in WindowIds, chosen \in BOOLEAN, env \in Environments}

InputTextChanged(texts) ==
    {Delivery([type |-> "InputTextChanged", control_id |-> control_id,
               text |-> text], env) :
        control_id \in {CONTROL_ID_TIMESTAMP_INPUT, PANEL_INPUT_BAR},
        text \in texts, env \in Environments}

ControlScrolled ==
    {Delivery([type |-> "ControlScrolled", window_id |-> window_id,
               control_id |-> control_id, vertical_pos |-> vertical_pos,
               horizontal_pos |-> 3], Calm) :
        window_id \in WindowIds,
        control_id \in {CONTROL_ID_LEFT_VIEWER, CONTROL_ID_RIGHT_VIEWER,
                        CONTROL_ID_TIMESTAMP_INPUT},
        vertical_pos \in ScrollPositions}

WindowCloseRequestedByUser ==
    {Delivery([type |-> "WindowCloseRequestedByUser", window_id |-> window_id],
              Calm) : window_id \in WindowIds}

WindowDestroyed ==
    {Delivery([type |-> "WindowDestroyed", window_id |-> window_id], Calm) :
        window_id \in WindowIds}

\* an event of the arm _ => {}
WindowResized ==
    {Delivery([type |-> "WindowResized", window_id |-> "w1"], Calm)}

\* one call of handle_event
HandleEvent ==
    /\ Accepting
    /\ \E d \in MainWindowUISetupComplete(LoadResponses) \cup MenuActionClicked
               \cup FileOpenProfileDialogCompleted \cup InputTextChanged(Patterns)
               \cup ControlScrolled \cup WindowCloseRequestedByUser
               \cup WindowDestroyed \cup WindowResized :
          Handled(d.ev, handle_event(Work(app), d.ev, d.env))

OnQuit == Handled([type |-> "on_quit"], on_quit(Work(app)))

TryDequeueCommand ==
    LET r == try_dequeue_command(app)
    IN /\ app' = r.app
       /\ effects' = <<[effect |-> "return", value |-> r.returned]>>
       /\ prev' = app
       /\ event' = [type |-> "try_dequeue_command"]
       /\ UNCHANGED <<engine_vars, parser_vars>>

InitPresenter == PresenterIdle /\ EngineIdle /\ ParserIdle

NextPresenter ==
    \/ HandleEvent
    \/ OnQuit
    \/ TryDequeueCommand

SpecPresenter == InitPresenter /\ [][NextPresenter]_vars


\* ------------------------------------------- the parser's state machine
\* the call returns: its arguments and its result join the calls served
Return(t, outcome) ==
    /\ calls' = [calls EXCEPT ![t].pc = "returned", ![t].result = Some(outcome)]
    /\ served' = served \cup {[lines |-> calls[t].lines,
                               pattern |-> calls[t].pattern,
                               result |-> outcome]}

\* a caller enters strip_timestamps(lines, pattern)
CallStripTimestamps(t) ==
    /\ calls[t].pc \in {"idle", "returned"}
    /\ calls[t].made < MaxCalls
    /\ \E pattern \in ParserPatterns :
          calls' = [calls EXCEPT ![t] =
                       [pc |-> "entry", lines |-> ParserInputs(t), pattern |-> pattern,
                        regex |-> None, result |-> None, made |-> @.made + 1]]
    /\ UNCHANGED <<parser, served>>

\* if pattern.is_empty() { return Ok(lines.to_vec()); }
CheckEmptyPattern(t) ==
    /\ calls[t].pc = "entry"
    /\ IF calls[t].pattern = ""
       THEN Return(t, Ok([k \in 1..Len(calls[t].lines) |-> Text(calls[t].lines[k])]))
       ELSE /\ calls' = [calls EXCEPT ![t].pc = "read"]
            /\ UNCHANGED served
    /\ UNCHANGED parser

\* self.cache.read().unwrap(): waits while a writer holds the lock
ReadLock(t) ==
    /\ calls[t].pc = "read"
    /\ parser.writer = None
    /\ parser' = [parser EXCEPT !.readers = @ \cup {t}]
    /\ calls' = [calls EXCEPT ![t].pc = "lookup"]
    /\ UNCHANGED served

\* if let Some(cached) = ... .get(pattern) { cached.clone() } else { ... }
Lookup(t) ==
    /\ calls[t].pc = "lookup"
    /\ IF calls[t].pattern \in DOMAIN parser.cache
       THEN /\ calls' = [calls EXCEPT ![t].pc = "strip",
                                      ![t].regex = Some(parser.cache[calls[t].pattern])]
            /\ parser' = [parser EXCEPT !.readers = @ \ {t}]
       ELSE /\ calls' = [calls EXCEPT ![t].pc = "compile"]
            /\ parser' = [parser EXCEPT !.readers = drop_scrutinee_guard(@, t)]
    /\ UNCHANGED served

\* Regex::new(pattern).map_err(..)?
Compile(t) ==
    /\ calls[t].pc = "compile"
    /\ IF RegexIsOk(calls[t].pattern)
       THEN /\ calls' = [calls EXCEPT ![t].pc = "write",
                                      ![t].regex = Some(Regex(calls[t].pattern))]
            /\ UNCHANGED <<parser, served>>
       ELSE /\ Return(t, Err(invalid_pattern(calls[t].pattern, "regex parse error")))
            /\ parser' = [parser EXCEPT !.readers = @ \ {t}]

\* self.cache.write().unwrap(): waits while any guard is held
WriteLock(t) ==
    /\ calls[t].pc = "write"
    /\ parser.writer = None
    /\ parser.readers = {}
    /\ parser' = [parser EXCEPT !.writer = Some(t)]
    /\ calls' = [calls EXCEPT ![t].pc = "insert"]
    /\ UNCHANGED served

\* cache.entry(pattern.to_string()).or_insert(compiled).clone(), and the
\* guards dropped at the end of the block
Insert(t) ==
    /\ calls[t].pc = "insert"
    /\ LET e == or_insert(parser.cache, calls[t].pattern, Unwrap(calls[t].regex))
       IN /\ parser' = [parser EXCEPT !.cache = e.cache, !.writer = None,
                                      !.readers = @ \ {t}]
          /\ calls' = [calls EXCEPT ![t].pc = "strip", ![t].regex = Some(e.value)]
    /\ UNCHANGED served

\* lines.iter().map(|line| regex.replace_all(line, "").to_string()).collect()
Strip(t) ==
    /\ calls[t].pc = "strip"
    /\ Return(t, Ok([k \in 1..Len(calls[t].lines) |->
                        replace_all(Unwrap(calls[t].regex).as_str, calls[t].lines[k])]))
    /\ UNCHANGED parser

InitParser == PresenterIdle /\ EngineIdle /\ ParserIdle

NextParser ==
    \E t \in ParserCallers :
        /\ \/ CallStripTimestamps(t)
           \/ CheckEmptyPattern(t)
           \/ ReadLock(t)
           \/ Lookup(t)
           \/ Compile(t)
           \/ WriteLock(t)
           \/ Insert(t)
           \/ Strip(t)
        /\ UNCHANGED <<engine_vars, presenter_vars>>

SpecParser == InitParser /\ [][NextParser]_vars

\* ======================================================================
\* Properties of compute_diff, read off the returned DiffResult
\* ======================================================================
Done == pc = "done"

KeysOf(lines) == [p \in 1..Len(lines) |-> lines[p].comparable_text]

\* output positions of the lines in a given state
LinesIn(state) == {k \in 1..Len(result.lines) : result.lines[k].state = state}

NumIn(state) == Cardinality(LinesIn(state))

\* C1: when compute_diff has returned, the number of Added lines minus the
\* number of Deleted lines equals |B| - |A|.
C1_AddedMinusDeleted ==
    Done => NumIn("Added") - NumIn("Deleted") = Len(lines_b) - Len(lines_a)

C1_Witness ==
    /\ Done
    /\ NumIn("Added") >= 1
    /\ NumIn("Deleted") >= 2
    /\ Len(lines_b) < Len(lines_a)

\* C2: compute_diff(A, A) (equal key sequences, repeated keys and the empty
\* sequence included) returns |A| lines, all Unchanged, and no moved block.
C2_SelfDiffUnchanged ==
    (Done /\ KeysOf(lines_a) = KeysOf(lines_b)) =>
        /\ Len(result.lines) = Len(lines_a)
        /\ \A k \in 1..Len(result.lines) : result.lines[k].state = "Unchanged"
        /\ NumIn("Added") = 0 /\ NumIn("Deleted") = 0 /\ NumIn("Moved") = 0
        /\ result.moved_blocks = <<>>

C2_Witness ==
    /\ Done
    /\ KeysOf(lines_a) = KeysOf(lines_b)
    /\ Len(lines_a) = MaxLen
    /\ \E p, q \in 1..Len(lines_a) : p # q /\ LineEq(lines_a[p], lines_a[q])
    /\ NumIn("Unchanged") = MaxLen

\* C3: every left line number is in 1..|A|, every right line number is in
\* 1..|B|; no A line number occurs on two Deleted lines and no B line number
\* on two Added lines.
C3_LineNumbersInRange ==
    Done =>
        /\ \A k \in 1..Len(result.lines) :
              LET l == result.lines[k] IN
              /\ IsSome(l.left) => Unwrap(l.left).line_number \in 1..Len(lines_a)
              /\ IsSome(l.right) => Unwrap(l.right).line_number \in 1..Len(lines_b)
        /\ \A k1, k2 \in LinesIn("Deleted") :
              Unwrap(result.lines[k1].left).line_number
                = Unwrap(result.lines[k2].left).line_number => k1 = k2
        /\ \A k1, k2 \in LinesIn("Added") :
              Unwrap(result.lines[k1].right).line_number
                = Unwrap(result.lines[k2].right).line_number => k1 = k2

C3_Witness ==
    /\ Done
    /\ NumIn("Deleted") >= 2
    /\ NumIn("Added") >= 2
    /\ NumIn("Unchanged") >= 1

\* C4: every returned line satisfies the DiffLine invariants: Added has only
\* a right side, Deleted only a left side, Unchanged and Moved both; the
\* movement fields are set exactly on Moved lines, moved_from being the left
\* and moved_to the right line number.
C4_DiffLineInvariants ==
    Done =>
        \A k \in 1..Len(result.lines) :
            LET l == result.lines[k] IN
            /\ l.state \in {"Added", "Deleted", "Unchanged", "Moved"}
            /\ l.state = "Added" => (l.left = None /\ IsSome(l.right))
            /\ l.state = "Deleted" => (IsSome(l.left) /\ l.right = None)
            /\ l.state \in {"Unchanged", "Moved"} => (IsSome(l.left) /\ IsSome(l.right))
            /\ IsSome(l.moved_from) <=> l.state = "Moved"
            /\ IsSome(l.moved_to) <=> l.state = "Moved"
            /\ l.state = "Moved" =>
                  /\ l.moved_from = Some(Unwrap(l.left).line_number)
                  /\ l.moved_to = Some(Unwrap(l.right).line_number)

C4_Witness ==
    /\ Done
    /\ \A s \in {"Added", "Deleted", "Unchanged", "Moved"} : NumIn(s) >= 1

\* C5: the statistics of the returned DiffResult are the per-state counts of
\* its final lines; they add up to the number of lines and total_changes is
\* additions + deletions + moves.
C5_StatisticsMatchLines ==
    Done =>
        /\ result.statistics.additions = NumIn("Added")
        /\ result.statistics.deletions = NumIn("Deleted")
        /\ result.statistics.moves = NumIn("Moved")
        /\ result.statistics.unchanged = NumIn("Unchanged")
        /\ result.statistics.additions + result.statistics.deletions
             + result.statistics.moves + result.statistics.unchanged
             = Len(result.lines)
        /\ total_changes(result.statistics)
             = NumIn("Added") + NumIn("Deleted") + NumIn("Moved")

C5_Witness ==
    /\ Done
    /\ result.statistics.moves >= 2
    /\ result.statistics.unchanged >= 1

\* the same lines with the displayed text replaced by the comparison key
Plain(lines) == [p \in 1..Len(lines) |-> same(lines[p].comparable_text)]

LineNumberOf(content) ==
    IF IsSome(content) THEN Some(Unwrap(content).line_number) ELSE None

\* a DiffResult without its texts: states, line numbers, movement, blocks
Shape(res) ==
    [lines |-> [k \in 1..Len(res.lines) |->
                  [state |-> res.lines[k].state,
                   left |-> LineNumberOf(res.lines[k].left),
                   right |-> LineNumberOf(res.lines[k].right),
                   moved_from |-> res.lines[k].moved_from,
                   moved_to |-> res.lines[k].moved_to]],
     moved_blocks |-> res.moved_blocks]

\* C7: the classification depends on the comparison keys alone: the result
\* has the states, line numbers, movement fields and moved blocks of the
\* diff of the same key sequences displayed as plain keys, whatever the
\* original texts; and every line shows on the left the original text of A
\* at its left line number, on the right that of B at its right line number.
C7_KeysDecideTextsKept ==
    Done =>
        /\ Shape(result) = Shape(compute_diff(Plain(lines_a), Plain(lines_b)))
        /\ \A k \in 1..Len(result.lines) :
              LET l == result.lines[k] IN
              /\ IsSome(l.left) =>
                    /\ Unwrap(l.left).line_number \in 1..Len(lines_a)
                    /\ Unwrap(l.left).text
                         = lines_a[Unwrap(l.left).line_number].original_text
              /\ IsSome(l.right) =>
                    /\ Unwrap(l.right).line_number \in 1..Len(lines_b)
                    /\ Unwrap(l.right).text
                         = lines_b[Unwrap(l.right).line_number].original_text

C7_Witness ==
    /\ Done
    /\ lines_a # Plain(lines_a)
    /\ lines_b = Plain(lines_b)
    /\ \E k \in LinesIn("Unchanged") :
          Unwrap(result.lines[k].left).text # Unwrap(result.lines[k].right).text
    /\ \E k \in LinesIn("Moved") :
          Unwrap(result.lines[k].left).text # Unwrap(result.lines[k].right).text

\* the sequence without its p-th element (1-based)
RemoveAt(seq, p) == [k \in 1..(Len(seq) - 1) |-> IF k < p THEN seq[k] ELSE seq[k + 1]]

KeyOccursIn(key, lines) == \E q \in 1..Len(lines) : lines[q].comparable_text = key

\* B is A with one line inserted at position p whose key is new to A
InsertedAt(p) ==
    /\ p \in 1..Len(lines_b)
    /\ RemoveAt(KeysOf(lines_b), p) = KeysOf(lines_a)
    /\ ~KeyOccursIn(lines_b[p].comparable_text, lines_a)

\* C8: if B is A with one extra line inserted at position p and the inserted
\* key does not occur in A, the result has exactly one Added line, at output
\* position p and carrying the inserted text, |A| Unchanged lines and no
\* Deleted or Moved line.
C8_SingleInsertion ==
    Done =>
        \A p \in 1..Len(lines_b) :
            InsertedAt(p) =>
                /\ LinesIn("Added") = {p}
                /\ result.lines[p].right = Some(LineContent(p, lines_b[p].original_text))
                /\ NumIn("Unchanged") = Len(lines_a)
                /\ NumIn("Deleted") = 0
                /\ NumIn("Moved") = 0

C8_Witness ==
    /\ Done
    /\ InsertedAt(2)
    /\ Len(lines_a) = 2
    /\ LineEq(lines_a[1], lines_a[2])
    /\ result.lines[2].state = "Added"

\* B is A with the line at position p removed
RemovedAt(p) ==
    /\ p \in 1..Len(lines_a)
    /\ RemoveAt(KeysOf(lines_a), p) = KeysOf(lines_b)

\* one Deleted line, the p-th of A, at output position p between its former
\* neighbours; every other line Unchanged
OnlyDeletion(p) ==
    /\ LinesIn("Deleted") = {p}
    /\ result.lines[p].left = Some(LineContent(p, lines_a[p].original_text))
    /\ NumIn("Unchanged") = Len(lines_a) - 1
    /\ NumIn("Added") = 0
    /\ NumIn("Moved") = 0

\* C9 as stated: if B is A with any one line removed (position p), the
\* result has exactly one Deleted line, with the removed text and line number
\* p, between its former neighbours, and all other lines are Unchanged.
C9_AnyRemoval ==
    Done => \A p \in 1..Len(lines_a) : RemovedAt(p) => OnlyDeletion(p)

\* C9 amended: the same, for a removed line whose comparison key does not
\* occur at a later position of A (the greedy pairing gives up the last
\* occurrence of a repeated key).
C9_RemovalOfLastOccurrence ==
    Done =>
        \A p \in 1..Len(lines_a) :
            (RemovedAt(p)
               /\ \A q \in (p + 1)..Len(lines_a) : ~LineEq(lines_a[q], lines_a[p]))
            => OnlyDeletion(p)

C9_Witness ==
    /\ Done
    /\ Len(lines_a) = 3
    /\ RemovedAt(2)
    /\ LineEq(lines_a[1], lines_a[2])
    /\ ~LineEq(lines_a[3], lines_a[2])
    /\ OnlyDeletion(2)

\* number of lines of a sequence that carry a key
CountKey(lines, key) == Cardinality({p \in 1..Len(lines) : lines[p].comparable_text = key})

\* B is a rearrangement of A that differs from A
Rearranged ==
    /\ \A key \in Keys : CountKey(lines_a, key) = CountKey(lines_b, key)
    /\ KeysOf(lines_a) # KeysOf(lines_b)

\* C10: if B is a rearrangement of A with a different key sequence, the
\* result has no Added and no Deleted line, at least one Moved line, at
\* least one moved block and statistics.moves >= 1.
C10_RearrangementMoves ==
    (Done /\ Rearranged) =>
        /\ NumIn("Added") = 0
        /\ NumIn("Deleted") = 0
        /\ NumIn("Moved") >= 1
        /\ Len(result.moved_blocks) >= 1
        /\ result.statistics.moves >= 1

C10_Witness ==
    /\ Done
    /\ Rearranged
    /\ \E p, q \in 1..Len(lines_a) : p # q /\ LineEq(lines_a[p], lines_a[q])
    /\ NumIn("Moved") >= 1
    /\ NumIn("Unchanged") >= 1

\* C11: with A empty the result is exactly the lines of B, all Added, in B
\* order; with B empty exactly the lines of A, all Deleted, in A order; with
\* both empty there is no line, the statistics are zero and no block.
C11_EmptyInputs ==
    Done =>
        /\ lines_a = <<>> =>
              /\ Len(result.lines) = Len(lines_b)
              /\ \A k \in 1..Len(lines_b) :
                    result.lines[k]
                      = DiffLine("Added", None,
                                 Some(LineContent(k, lines_b[k].original_text)))
              /\ result.moved_blocks = <<>>
        /\ lines_b = <<>> =>
              /\ Len(result.lines) = Len(lines_a)
              /\ \A k \in 1..Len(lines_a) :
                    result.lines[k]
                      = DiffLine("Deleted",
                                 Some(LineContent(k, lines_a[k].original_text)), None)
              /\ result.moved_blocks = <<>>
        /\ (lines_a = <<>> /\ lines_b = <<>>) =>
              /\ result.lines = <<>>
              /\ result.statistics = DefaultStatistics
              /\ result.moved_blocks = <<>>

C11_Witness ==
    /\ Done
    /\ lines_a = <<>>
    /\ Len(lines_b) = MaxLen
    /\ lines_b # Plain(lines_b)
    /\ NumIn("Added") = MaxLen

\* every set slot of a correspondence array holds an index of the other side
LinksInRange(link, n_self, n_other) ==
    /\ Len(link) = n_self
    /\ \A p \in 1..Len(link) : IsSome(link[p]) => Unwrap(link[p]) \in 0..(n_other - 1)

\* what the alignment hands to the classifier, and the classifier to the
\* LIS search and back, indexes inside the arrays it is used on
AlignmentInRange ==
    LET st == align(lines_a, lines_b, oa, na)
        n == Len(st.matched_info)
        sequence == [k \in 1..n |-> st.matched_info[k][2]]
        t == lis_tables(sequence)
        lis == longest_increasing_subsequence_indices(sequence)
    IN /\ Len(st.processed_old) = Len(lines_a)
       /\ st.i_ptr \in 0..Len(lines_a)
       /\ \A k \in 1..n :
             /\ st.matched_info[k][1] \in 0..(Len(st.result_lines) - 1)
             /\ st.matched_info[k][2] \in 0..(Len(lines_a) - 1)
             /\ st.matched_info[k][3] \in 0..(Len(lines_b) - 1)
       /\ t.length \in 0..n
       /\ n > 0 => t.length >= 1
       /\ \A k \in 1..n :
             /\ t.tail_indices[k] \in 0..(n - 1)
             /\ IsSome(t.predecessors[k]) => Unwrap(t.predecessors[k]) \in 0..(k - 2)
       /\ \A k \in 1..Len(lis) : lis[k] \in 0..(n - 1)

\* the index facts of every stage and the accounting of the returned result
TotalSoFar ==
    /\ pc \in {"start", "table", "anchors", "linked", "built", "done"}
    /\ pc \in {"anchors", "linked", "built", "done"} =>
          /\ LinksInRange(oa, Len(lines_a), Len(lines_b))
          /\ LinksInRange(na, Len(lines_b), Len(lines_a))
    /\ pc \in {"linked", "built", "done"} => AlignmentInRange
    /\ Done =>
          /\ Len(result.lines) = NumIn("Added") + NumIn("Deleted")
                                   + NumIn("Unchanged") + NumIn("Moved")
          /\ Len(lines_a) = NumIn("Deleted") + NumIn("Unchanged") + NumIn("Moved")
          /\ Len(lines_b) = NumIn("Added") + NumIn("Unchanged") + NumIn("Moved")

\* from every stage short of the return, the pass that runs next comes back
\* with a value of the shape the following stage expects
NextPassReturns ==
    /\ pc = "start" =>
          LET t == build_symbol_table(lines_a, lines_b)
          IN \A p \in 1..Len(lines_a) : TableKey(lines_a[p]) \in DOMAIN t
    /\ pc = "table" =>
          LET u == link_unique_anchors(lines_a, lines_b, table)
          IN Len(u.oa) = Len(lines_a) /\ Len(u.na) = Len(lines_b)
    /\ pc = "anchors" =>
          LET l == link_non_unique_matches(lines_a, lines_b, table, oa, na)
          IN Len(l.oa) = Len(lines_a) /\ Len(l.na) = Len(lines_b)
    /\ pc = "linked" =>
          LET d == build_diff_lines(lines_a, lines_b, oa, na)
          IN /\ Len(d.lines) <= Len(lines_a) + Len(lines_b)
             /\ Len(d.lines) >= Len(lines_a)
             /\ Len(d.lines) >= Len(lines_b)
             /\ Len(d.moved_blocks) <= Len(d.lines)
    /\ pc = "built" =>
          with_moved_blocks(built.lines, built.moved_blocks).lines = built.lines

\* C12: compute_diff is total: whatever the inputs, every stage hands in-range
\* indices to the next (oa, na, processed_old, matched_info, tail_indices,
\* predecessors, the LIS positions), the pass that follows returns, and the
\* DiffResult returned at the end accounts for every line of A and of B.
C12_Total == TotalSoFar /\ NextPassReturns

C12_Witness ==
    /\ Done
    /\ Len(lines_a) = MaxLen
    /\ Len(lines_b) = MaxLen
    /\ \E p, q \in 1..Len(lines_a) : p # q /\ LineEq(lines_a[p], lines_a[q])
    /\ \E p, q \in 1..Len(lines_b) : p # q /\ LineEq(lines_b[p], lines_b[q])
    /\ NumIn("Moved") >= 1
    /\ NumIn("Deleted") >= 1

\* ----------------------------------------------------------------------
\* Inputs one line longer on one side: the shortest on which three matched
\* lines and an unmatched line meet in one result.
\* ----------------------------------------------------------------------
KeySeqsOfLen(n) == [1..n -> Keys]

InitWide ==
    /\ \E long \in {"A", "B"} :
       \E ka \in KeySeqsOfLen(IF long = "A" THEN MaxLen + 1 ELSE MaxLen),
          kb \in KeySeqsOfLen(IF long = "B" THEN MaxLen + 1 ELSE MaxLen) :
          /\ FirstOccurrenceOrder(ka \o kb)
          /\ lines_a = MakeLines("A", "same", ka)
          /\ lines_b = MakeLines("B", "same", kb)
    /\ pc = "start"
    /\ table = EmptyTable
    /\ oa = <<>>
    /\ na = <<>>
    /\ built = EmptyBuilt
    /\ result = EmptyResult
    /\ PresenterIdle
    /\ ParserIdle

SpecWide == InitWide /\ [][Next]_vars

\* output positions of the Moved lines a block spans: the matches are taken
\* in the order of B, so a block's lines are those whose moved_to lies in its
\* destination range
CoveredBy(b) ==
    {k \in LinesIn("Moved") :
        /\ Unwrap(result.lines[k].moved_to) >= b.destination_start
        /\ Unwrap(result.lines[k].moved_to) <= b.destination_end}

BlocksOf(k) ==
    {n \in 1..Len(result.moved_blocks) : k \in CoveredBy(result.moved_blocks[n])}

\* the statement as the design words it: a block is a run of adjacent output
\* lines, all of them Moved
C13_AdjacentInOutput ==
    Done =>
      /\ \A n \in 1..Len(result.moved_blocks) :
           LET c == CoveredBy(result.moved_blocks[n])
           IN /\ c # {}
              /\ \A i \in c, j \in c : \A k \in i..j : k \in c
      /\ \A k \in LinesIn("Moved") :
           /\ Cardinality(BlocksOf(k)) = 1
           /\ (k + 1) \in LinesIn("Moved") => BlocksOf(k + 1) = BlocksOf(k)

\* C13: every MovedBlock is one maximal run of Moved lines in match order:
\* between two Moved lines of one block the output holds no Unchanged line
\* (Added and Deleted lines may lie between them), every Moved line belongs to
\* exactly one block, and two Moved lines with no Unchanged line between them
\* belong to the same block.
C13_RunsInMatchOrder ==
    Done =>
      /\ \A n \in 1..Len(result.moved_blocks) :
           LET c == CoveredBy(result.moved_blocks[n])
           IN /\ c # {}
              /\ \A i \in c, j \in c : \A k \in i..j : k \notin LinesIn("Unchanged")
      /\ \A i \in LinesIn("Moved") :
           /\ Cardinality(BlocksOf(i)) = 1
           /\ \A j \in LinesIn("Moved") :
                (i < j /\ \A k \in i..j : k \notin LinesIn("Unchanged"))
                    => BlocksOf(i) = BlocksOf(j)

\* a block whose Moved lines have an unmatched line between them
C13_Witness ==
    /\ Done
    /\ \E n \in 1..Len(result.moved_blocks) :
         \E i \in CoveredBy(result.moved_blocks[n]),
            j \in CoveredBy(result.moved_blocks[n]) :
            \E k \in i..j : k \in LinesIn("Added") \cup LinesIn("Deleted")

SetMin(S) == CHOOSE x \in S : \A y \in S : x <= y
SetMax(S) == CHOOSE x \in S : \A y \in S : x >= y

MovedFromOf(b) == {Unwrap(result.lines[k].moved_from) : k \in CoveredBy(b)}
MovedToOf(b) == {Unwrap(result.lines[k].moved_to) : k \in CoveredBy(b)}

\* C14: for every moved block, source_start and source_end are the least and
\* the greatest moved_from of the block's Moved lines, destination_start and
\* destination_end the least and the greatest of their moved_to, so that
\* source_start <= source_end and destination_start <= destination_end.
C14_BlockMinMax ==
    Done =>
      \A n \in 1..Len(result.moved_blocks) :
         LET b == result.moved_blocks[n]
         IN /\ CoveredBy(b) # {}
            /\ b.source_start = SetMin(MovedFromOf(b))
            /\ b.source_end = SetMax(MovedFromOf(b))
            /\ b.destination_start = SetMin(MovedToOf(b))
            /\ b.destination_end = SetMax(MovedToOf(b))
            /\ b.source_start <= b.source_end
            /\ b.destination_start <= b.destination_end

\* ======================================================================
\* Properties of the presenter, read off the event handled last
\* ======================================================================
\* the commands the last event enqueued, in order
Enqueued ==
    LET IsEnqueue(e) == e.effect = "enqueue"
        s == SelectSeq(effects, IsEnqueue)
    IN [k \in 1..Len(s) |-> s[k].command]

EnqueuedOf(command) ==
    LET Is(c) == c.command = command
    IN SelectSeq(Enqueued, Is)

\* how often the last event did something of a kind
Count(effect) == Cardinality({k \in 1..Len(effects) : effects[k].effect = effect})

\* the last event entered the preparation of a diff
Triggered == Count("execute_diff") >= 1

\* the presenter as it was when the preparation was entered
AtTrigger ==
    effects[CHOOSE k \in 1..Len(effects) : effects[k].effect = "execute_diff"].at

\* a file could not be read or the parser returned an error
PreparationFailed ==
    \E k \in 1..Len(effects) :
        /\ effects[k].effect \in {"read_file_lines", "strip_timestamps"}
        /\ ~effects[k].ok

\* C15: when a diff is triggered and a file cannot be read or the parser
\* returns an error, compute_diff is not invoked, exactly one ShowMessageBox
\* of severity Error is enqueued and no SetViewerContent, and diff_lines, both
\* paths and the pattern are what they were when the trigger was entered.
C15_FailedPreparation ==
    (Triggered /\ PreparationFailed) =>
        /\ Count("compute_diff") = 0
        /\ Len(EnqueuedOf("ShowMessageBox")) = 1
        /\ EnqueuedOf("ShowMessageBox")[1].severity = "Error"
        /\ EnqueuedOf("SetViewerContent") = <<>>
        /\ app.diff_lines = AtTrigger.diff_lines
        /\ app.diff_lines = prev.diff_lines
        /\ app.left_file_path = AtTrigger.left_file_path
        /\ app.right_file_path = AtTrigger.right_file_path
        /\ app.timestamp_pattern = AtTrigger.timestamp_pattern

\* the right file vanished after a diff had been shown
C15_Witness ==
    /\ Triggered
    /\ \E k \in 1..Len(effects) :
          /\ effects[k].effect = "read_file_lines"
          /\ effects[k].path = "logs/right.log"
          /\ ~effects[k].ok
    /\ app.diff_lines # <<>>
    /\ Len(EnqueuedOf("ShowMessageBox")) = 1

\* a pattern the presenter takes for a regex, or no pattern at all
PatternIsValid(pattern) == pattern = "" \/ RegexIsOk(pattern)

\* ready for a diff: a window is active, both paths are set, the pattern is
\* valid
Ready(a) ==
    /\ IsSome(a.active_window)
    /\ IsSome(a.left_file_path)
    /\ IsSome(a.right_file_path)
    /\ a.timestamp_pattern_is_valid
    /\ PatternIsValid(a.timestamp_pattern)

\* the two viewer updates of the stored diff, left then right
ViewerUpdates(a) ==
    <<SetViewerContent(Unwrap(a.active_window), CONTROL_ID_LEFT_VIEWER,
                       build_viewer_text(a.diff_lines)[1]),
      SetViewerContent(Unwrap(a.active_window), CONTROL_ID_RIGHT_VIEWER,
                       build_viewer_text(a.diff_lines)[2])>>

LastTwo(s) == SubSeq(s, Len(s) - 1, Len(s))

IsEvent == event.type \notin {"new", "on_quit", "try_dequeue_command"}

\* C16: compute_diff is invoked and SetViewerContent enqueued only when a
\* window is active, both paths are set and the pattern is valid; a trigger
\* whose preparation succeeds invokes the engine exactly once and enqueues
\* exactly two SetViewerContent commands, the left viewer's and then the right
\* viewer's, as the last commands of the queue; try_dequeue_command hands the
\* queue out from its front, one command a call, and None when it is empty.
C16_DiffWhenReady ==
    /\ (Count("compute_diff") >= 1 \/ EnqueuedOf("SetViewerContent") # <<>>) =>
          /\ Triggered
          /\ Ready(AtTrigger)
          /\ Ready(app)
    /\ (Triggered /\ ~PreparationFailed) =>
          /\ Count("compute_diff") = 1
          /\ EnqueuedOf("SetViewerContent") = ViewerUpdates(app)
          /\ LastTwo(Enqueued) = ViewerUpdates(app)
          /\ LastTwo(app.pending_commands) = ViewerUpdates(app)
    /\ IsEvent => app.pending_commands = prev.pending_commands \o Enqueued
    /\ event.type = "try_dequeue_command" =>
          IF prev.pending_commands = <<>>
          THEN effects[1].value = None /\ app.pending_commands = <<>>
          ELSE /\ effects[1].value = Some(Head(prev.pending_commands))
               /\ app.pending_commands = Tail(prev.pending_commands)

\* the left viewer's update has just been handed out and the right viewer's
\* is all that waits
C16_Witness ==
    /\ event.type = "try_dequeue_command"
    /\ IsSome(app.active_window)
    /\ effects[1].value = Some(ViewerUpdates(app)[1])
    /\ app.pending_commands = <<ViewerUpdates(app)[2]>>
    /\ \E k \in 1..Len(app.diff_lines) : app.diff_lines[k].state = "Moved"

StyleCommand(a) ==
    ApplyStyleToControl(Unwrap(a.active_window), CONTROL_ID_TIMESTAMP_INPUT,
        IF a.timestamp_pattern_is_valid THEN "DefaultInput" ELSE "DefaultInputError")

\* the last event put a valid pattern in the place of an invalid one while
\* both files were selected in an active window
ValidPatternEntered ==
    /\ event.type = "InputTextChanged"
    /\ event.control_id = CONTROL_ID_TIMESTAMP_INPUT
    /\ PatternIsValid(event.text)
    /\ ~prev.timestamp_pattern_is_valid
    /\ IsSome(prev.active_window)
    /\ IsSome(prev.left_file_path)
    /\ IsSome(prev.right_file_path)

Snapshot(a) ==
    AppSettings(a.left_file_path, a.right_file_path,
                a.timestamp_pattern, a.timestamp_history)

SaveSettings(a) == [effect |-> "save_settings", snapshot |-> Snapshot(a)]

EnqueueOf(command) == [effect |-> "enqueue", command |-> command]

\* the last event asked for the exit: the Exit menu action or the close
\* button of a window
ExitRequested ==
    \/ event.type = "MenuActionClicked" /\ event.action_id = MENU_ACTION_EXIT
    \/ event.type = "WindowCloseRequestedByUser"

\* the window the request is about: the close button names one, the menu
\* none
ExitConcernsActiveWindow ==
    /\ IsSome(prev.active_window)
    /\ event.type = "WindowCloseRequestedByUser" =>
          event.window_id = Unwrap(prev.active_window)

\* C19: an exit request with an active window (the Exit menu action, or a
\* close request naming the active window) calls save_settings once with the
\* snapshot of the current paths, pattern and history and then enqueues one
\* CloseWindow for the active window, and does nothing else; without an
\* active window, or for a close request naming another window, it saves
\* nothing and enqueues nothing.  on_quit saves the current snapshot once,
\* whatever the window state, and enqueues nothing.
C19_ExitSavesThenCloses ==
    /\ ExitRequested =>
          /\ app = [prev EXCEPT !.pending_commands = app.pending_commands]
          /\ IF ExitConcernsActiveWindow
             THEN effects = <<SaveSettings(prev),
                              EnqueueOf(CloseWindow(Unwrap(prev.active_window)))>>
             ELSE effects = <<>>
    /\ event.type = "on_quit" =>
          /\ effects = <<SaveSettings(prev)>>
          /\ app = prev

\* the Exit menu action saved both paths, the pattern and its history
C19_Witness ==
    /\ event.type = "MenuActionClicked"
    /\ event.action_id = MENU_ACTION_EXIT
    /\ Len(effects) = 2
    /\ effects[1].effect = "save_settings"
    /\ IsSome(effects[1].snapshot.left_file_path)
    /\ IsSome(effects[1].snapshot.right_file_path)
    /\ effects[1].snapshot.timestamp_history # <<>>
    /\ EnqueuedOf("CloseWindow") # <<>>

OtherViewer(control_id) ==
    IF control_id = CONTROL_ID_LEFT_VIEWER THEN CONTROL_ID_RIGHT_VIEWER
    ELSE CONTROL_ID_LEFT_VIEWER

\* C20: a ControlScrolled event for the left (right) viewer of the active
\* window enqueues one SetScrollPosition for the right (left) viewer with the
\* same vertical_pos and horizontal_pos 0; for another control or another
\* window it does nothing.  is_syncing_scroll is false after every event, so
\* the scroll event that applying the command produces is handled like any
\* other and sends a SetScrollPosition back.
C20_LinkedScroll ==
    /\ ~app.is_syncing_scroll
    /\ event.type = "ControlScrolled" =>
          IF /\ Some(event.window_id) = prev.active_window
             /\ event.control_id \in {CONTROL_ID_LEFT_VIEWER, CONTROL_ID_RIGHT_VIEWER}
          THEN /\ effects =
                    <<EnqueueOf(SetScrollPosition(event.window_id,
                                   OtherViewer(event.control_id),
                                   event.vertical_pos, 0))>>
               /\ app = [prev EXCEPT !.pending_commands = Append(@, Enqueued[1])]
          ELSE effects = <<>> /\ app = prev

\* the right viewer was scrolled and the left one is told to follow
C20_Witness ==
    /\ event.type = "ControlScrolled"
    /\ event.control_id = CONTROL_ID_RIGHT_VIEWER
    /\ event.vertical_pos > 0
    /\ event.horizontal_pos > 0
    /\ Len(Enqueued) = 1
    /\ Enqueued[1].control_id = CONTROL_ID_LEFT_VIEWER
    /\ Enqueued[1].vertical_pos = event.vertical_pos
    /\ Enqueued[1].horizontal_pos = 0

\* a list without the first occurrence of an entry
RECURSIVE WithoutFirst(_, _)
WithoutFirst(history, pattern) ==
    IF history = <<>> THEN <<>>
    ELSE IF Head(history) = pattern THEN Tail(history)
    ELSE <<Head(history)>> \o WithoutFirst(Tail(history), pattern)

\* the first n entries of a list
Take(history, n) ==
    SubSeq(history, 1, IF Len(history) < n THEN Len(history) ELSE n)

\* the last event entered a text into the timestamp input
PatternTyped ==
    /\ event.type = "InputTextChanged"
    /\ event.control_id = CONTROL_ID_TIMESTAMP_INPUT

\* C18: the timestamp history is a most-recently-used list of at most five
\* entries after any sequence of events, loading from settings included: a
\* valid non-empty pattern that is entered goes to the front, its earlier
\* occurrence is removed and the entries beyond five are dropped; an invalid
\* pattern and the empty pattern never enter the history; the list holds no
\* entry twice.
C18_HistoryIsMRU ==
    /\ Len(app.timestamp_history) <= MAX_TIMESTAMP_HISTORY
    /\ (PatternTyped /\ event.text # "" /\ PatternIsValid(event.text)) =>
          app.timestamp_history =
              Take(<<event.text>> \o WithoutFirst(prev.timestamp_history, event.text),
                   MAX_TIMESTAMP_HISTORY)
    /\ (PatternTyped /\ (event.text = "" \/ ~PatternIsValid(event.text))) =>
          app.timestamp_history = prev.timestamp_history
    /\ \A k \in 1..Len(app.timestamp_history) :
          /\ app.timestamp_history[k] # ""
          /\ PatternIsValid(app.timestamp_history[k])
    /\ \A k \in 1..Len(app.timestamp_history) :
          \A n \in 1..Len(app.timestamp_history) :
             app.timestamp_history[k] = app.timestamp_history[n] => k = n

\* ----------------------------------------------------------------------
\* The correspondence arrays
\* ----------------------------------------------------------------------
\* which occurrence of its key the line at position p is, counted from one
OccurrenceRank(lines, p) ==
    Cardinality({q \in 1..p : LineEq(lines[q], lines[p])})

Linked == pc \in {"linked", "built", "done"}

\* the k-th occurrence of a key on one side is linked to the k-th occurrence
\* on the other side when there is one, and is unlinked otherwise
PairedByRank(link, lines_self, lines_other) ==
    \A p \in 1..Len(lines_self) :
        LET key == lines_self[p].comparable_text
            rank == OccurrenceRank(lines_self, p)
        IN IF rank <= CountKey(lines_other, key)
           THEN \E q \in 1..Len(lines_other) :
                   /\ LineEq(lines_other[q], lines_self[p])
                   /\ OccurrenceRank(lines_other, q) = rank
                   /\ link[p] = Some(q - 1)
           ELSE link[p] = None

\* the positions linked are those whose key occurs once on each side
OnlyAnchors(link, lines_self) ==
    \A p \in 1..Len(lines_self) :
        IsSome(link[p]) <=>
            /\ CountKey(lines_a, lines_self[p].comparable_text) = 1
            /\ CountKey(lines_b, lines_self[p].comparable_text) = 1

\* C22: after the unique-anchor pass alone exactly the positions whose key
\* has count (1,1) are linked; after both linking passes oa and na are
\* mutually inverse, linked positions carry equal keys, and for every key the
\* k-th occurrence in A is linked to the k-th occurrence in B for every k up
\* to the smaller count while every other position stays unlinked.
C22_LinkingIsGreedyPairing ==
    /\ pc = "anchors" =>
          /\ OnlyAnchors(oa, lines_a)
          /\ OnlyAnchors(na, lines_b)
    /\ Linked =>
          /\ \A i \in 1..Len(lines_a) : \A j \in 1..Len(lines_b) :
                /\ oa[i] = Some(j - 1) <=> na[j] = Some(i - 1)
                /\ oa[i] = Some(j - 1) => LineEq(lines_a[i], lines_b[j])
          /\ PairedByRank(oa, lines_a, lines_b)
          /\ PairedByRank(na, lines_b, lines_a)

\* a key three times in A and twice in B: the second occurrences are linked
\* and the third occurrence in A is left over
C22_Witness ==
    /\ pc = "linked"
    /\ \E p \in 1..Len(lines_a) :
          /\ OccurrenceRank(lines_a, p) = 2
          /\ IsSome(oa[p])
          /\ Unwrap(oa[p]) # p - 1
    /\ \E p \in 1..Len(lines_a) :
          /\ oa[p] = None
          /\ CountKey(lines_b, lines_a[p].comparable_text) >= 1

\* ----------------------------------------------------------------------
\* Per-key accounting of the result
\* ----------------------------------------------------------------------
\* output positions that show old line p (1-based) in a given state
DeletedAt(p) ==
    {k \in LinesIn("Deleted") : Unwrap(result.lines[k].left).line_number = p}

\* output positions that show new line q (1-based) as an addition
AddedAt(q) ==
    {k \in LinesIn("Added") : Unwrap(result.lines[k].right).line_number = q}

\* output positions that show old line p against new line q as a match
MatchedAt(p, q) ==
    {k \in LinesIn("Unchanged") \cup LinesIn("Moved") :
        /\ Unwrap(result.lines[k].left).line_number = p
        /\ Unwrap(result.lines[k].right).line_number = q}

\* the occurrences of a key beyond those the other side can answer
Surplus(lines_self, lines_other) ==
    {p \in 1..Len(lines_self) :
        OccurrenceRank(lines_self, p)
            > CountKey(lines_other, lines_self[p].comparable_text)}

Max(x, y) == IF x >= y THEN x ELSE y

\* C23: in a returned result, for every key the Deleted lines are the last
\* max(0, count_A - count_B) occurrences of the key in A and the Added lines
\* the last max(0, count_B - count_A) occurrences in B, each shown once; the
\* Unchanged and Moved lines number the sum over the keys of the smaller
\* count; every linked pair is shown as exactly one matched line; a line
\* whose key is absent from the other side is Added or Deleted.
C23_PerKeyCounts ==
    Done =>
       /\ \A p \in 1..Len(lines_a) :
             Cardinality(DeletedAt(p)) = IF p \in Surplus(lines_a, lines_b) THEN 1 ELSE 0
       /\ \A q \in 1..Len(lines_b) :
             Cardinality(AddedAt(q)) = IF q \in Surplus(lines_b, lines_a) THEN 1 ELSE 0
       /\ \A key \in Keys :
             /\ Cardinality({p \in Surplus(lines_a, lines_b) :
                                lines_a[p].comparable_text = key})
                   = Max(0, CountKey(lines_a, key) - CountKey(lines_b, key))
             /\ Cardinality({q \in Surplus(lines_b, lines_a) :
                                lines_b[q].comparable_text = key})
                   = Max(0, CountKey(lines_b, key) - CountKey(lines_a, key))
       /\ NumIn("Unchanged") + NumIn("Moved")
             = Cardinality((1..Len(lines_a)) \ Surplus(lines_a, lines_b))
       /\ \A i \in 1..Len(lines_a) : \A j \in 1..Len(lines_b) :
             Cardinality(MatchedAt(i, j)) = IF oa[i] = Some(j - 1) THEN 1 ELSE 0
       /\ \A p \in 1..Len(lines_a) :
             CountKey(lines_b, lines_a[p].comparable_text) = 0
                => Cardinality(DeletedAt(p)) = 1
       /\ \A q \in 1..Len(lines_b) :
             CountKey(lines_a, lines_b[q].comparable_text) = 0
                => Cardinality(AddedAt(q)) = 1

\* one key has a copy too many in A, another a copy too many in B, and both
\* are matched as well
C23_Witness ==
    /\ Done
    /\ \E key \in Keys :
          CountKey(lines_a, key) > CountKey(lines_b, key) /\ CountKey(lines_b, key) >= 1
    /\ \E key \in Keys :
          CountKey(lines_b, key) > CountKey(lines_a, key) /\ CountKey(lines_a, key) >= 1
    /\ NumIn("Deleted") = 1
    /\ NumIn("Added") = 1

\* ----------------------------------------------------------------------
\* The order of the deletions
\* ----------------------------------------------------------------------
Matched == LinesIn("Unchanged") \cup LinesIn("Moved")

LeftNumber(k) == Unwrap(result.lines[k].left).line_number

\* C24: in a returned result, every unlinked A position below the A position
\* of a matched line stands as a Deleted line before that matched line, and
\* these Deleted lines stand in ascending order of their old index; a
\* position linked to a later B index does not hold the flush back.
C24_FlushReachesEveryUnlinked ==
    Done =>
       \A k \in Matched :
          /\ \A p \in 1..(LeftNumber(k) - 1) :
                oa[p] = None =>
                   \E d \in LinesIn("Deleted") : d < k /\ LeftNumber(d) = p
          /\ \A d1, d2 \in LinesIn("Deleted") :
                d1 < d2 /\ d2 < k => LeftNumber(d1) < LeftNumber(d2)

\* result_lines, matched_info, processed_old and i_ptr when the scan of B is
\* over and the last flush has not begun
AfterScan ==
    scan_b(lines_a, lines_b, oa, na, 0,
           [result_lines |-> <<>>, matched_info |-> <<>>,
            processed_old |-> Repeat(FALSE, Len(lines_a)), i_ptr |-> 0])

\* output positions that show an old line
WithLeft == LinesIn("Deleted") \cup Matched

\* C25: in a returned result the Deleted lines stand in strictly ascending
\* left line number; a Deleted line stands after the lines of every A
\* position below its own; the A positions the scan of B left unprocessed
\* are the last lines of the result, Deleted, in ascending order.
C25_DeletionsInOrder ==
    Done =>
       /\ \A d1, d2 \in LinesIn("Deleted") :
             d1 < d2 => LeftNumber(d1) < LeftNumber(d2)
       /\ \A d \in LinesIn("Deleted") :
             \A p \in 1..(LeftNumber(d) - 1) :
                \E k \in WithLeft : k < d /\ LeftNumber(k) = p
       /\ LET n == Len(AfterScan.result_lines)
              left_over == {p \in 1..Len(lines_a) : ~AfterScan.processed_old[p]}
          IN /\ Len(result.lines) = n + Cardinality(left_over)
             /\ \A k \in (n + 1)..Len(result.lines) :
                   /\ result.lines[k].state = "Deleted"
                   /\ LeftNumber(k) \in left_over
                   /\ k > n + 1 => LeftNumber(k - 1) < LeftNumber(k)

\* one old line is flushed before a match and another is left for the flush
\* after the scan
C25_Witness ==
    /\ Done
    /\ \E d \in LinesIn("Deleted") : \E k \in Matched : d < k
    /\ \E d \in LinesIn("Deleted") : d > Len(AfterScan.result_lines)
    /\ NumIn("Deleted") >= 2

\* ----------------------------------------------------------------------
\* The stable backbone
\* ----------------------------------------------------------------------
RightNumber(k) == Unwrap(result.lines[k].right).line_number

\* a set of matched output lines whose old indices rise with the output
OrderConsistent(S) ==
    \A k1, k2 \in S : k1 < k2 => LeftNumber(k1) < LeftNumber(k2)

\* the length of the longest strictly increasing subsequence of the old
\* indices of the matched lines, taken in output order
LongestOrderConsistent ==
    SetMax({Cardinality(S) : S \in {T \in SUBSET Matched : OrderConsistent(T)}})

\* the pairs the linking passes made
LinkedPairs == {i \in 1..Len(lines_a) : IsSome(oa[i])}

\* C26: in a returned result the Unchanged lines are a longest increasing
\* subsequence of the matched pairs: their left and their right line numbers
\* rise strictly in output order, they are as many as the longest strictly
\* increasing subsequence of the old indices of all matched pairs in output
\* order, and the matched pairs outside them, and no other lines, are Moved.
C26_UnchangedIsLIS ==
    Done =>
       /\ \A k1, k2 \in LinesIn("Unchanged") :
             k1 < k2 => /\ LeftNumber(k1) < LeftNumber(k2)
                        /\ RightNumber(k1) < RightNumber(k2)
       /\ NumIn("Unchanged") = LongestOrderConsistent
       /\ NumIn("Moved") = Cardinality(LinkedPairs) - LongestOrderConsistent
       /\ \A k \in LinesIn("Moved") :
             oa[LeftNumber(k)] = Some(RightNumber(k) - 1)
       /\ \A k \in LinesIn("Unchanged") :
             oa[LeftNumber(k)] = Some(RightNumber(k) - 1)

\* three matched pairs of which two keep their order and one does not
C26_Witness ==
    /\ Done
    /\ NumIn("Unchanged") >= 2
    /\ NumIn("Moved") >= 1

\* ----------------------------------------------------------------------
\* Inputs that rearrange: A is a run of distinct lines and B a sequence over
\* the lines of A, one of the two a line longer than the other, the shortest
\* on which two moved blocks meet an unmatched line.
\* ----------------------------------------------------------------------
DistinctKeys(n) == [p \in 1..n |-> KeyNames[p]]

InitShuffled ==
    /\ \E long \in {"A", "B"} :
       LET n_a == IF long = "A" THEN MaxLen + 2 ELSE MaxLen + 1
           n_b == IF long = "B" THEN MaxLen + 2 ELSE MaxLen + 1
       IN \E kb \in [1..n_b -> {KeyNames[p] : p \in 1..n_a}] :
             /\ lines_a = MakeLines("A", "same", DistinctKeys(n_a))
             /\ lines_b = MakeLines("B", "same", kb)
    /\ pc = "start"
    /\ table = EmptyTable
    /\ oa = <<>>
    /\ na = <<>>
    /\ built = EmptyBuilt
    /\ result = EmptyResult
    /\ PresenterIdle
    /\ ParserIdle

SpecShuffled == InitShuffled /\ [][Next]_vars

\* the Moved lines that open a run: the matched line before them, if there
\* is one, is Unchanged
RunStarts ==
    {k \in LinesIn("Moved") :
        \A m \in Matched :
            (m < k /\ \A x \in Matched : ~(m < x /\ x < k)) => m \in LinesIn("Unchanged")}

\* C27: in a returned result there are as many moved blocks as maximal runs
\* of Moved lines in match order, every Moved line lies in exactly one block,
\* moved_blocks is empty exactly when statistics.moves is 0, the blocks are
\* listed with strictly increasing, pairwise disjoint destination ranges, and
\* the Added and Deleted lines are as the alignment made them.
C27_BlocksPartitionMoves ==
    Done =>
       /\ Len(result.moved_blocks) = Cardinality(RunStarts)
       /\ \A k \in LinesIn("Moved") : Cardinality(BlocksOf(k)) = 1
       /\ result.moved_blocks = <<>> <=> result.statistics.moves = 0
       /\ \A n \in 1..Len(result.moved_blocks) :
             /\ result.moved_blocks[n].destination_start
                   <= result.moved_blocks[n].destination_end
             /\ n > 1 => result.moved_blocks[n - 1].destination_end
                            < result.moved_blocks[n].destination_start
       /\ LET st == align(lines_a, lines_b, oa, na)
          IN /\ Len(result.lines) = Len(st.result_lines)
             /\ \A k \in 1..Len(st.result_lines) :
                   st.result_lines[k].state \in {"Added", "Deleted"}
                      => result.lines[k] = st.result_lines[k]

\* two blocks with an Unchanged line between them, and an unmatched line
C27_Witness ==
    /\ Done
    /\ Len(result.moved_blocks) >= 2
    /\ NumIn("Added") + NumIn("Deleted") >= 1

\* ----------------------------------------------------------------------
\* B in its order, with the leftovers of A
\* ----------------------------------------------------------------------
WithRight == {k \in 1..Len(result.lines) : IsSome(result.lines[k].right)}

\* C29: in a returned result the lines with a right side are the Added,
\* Unchanged and Moved lines and their right line numbers are 1, 2, ..., |B|
\* in ascending output order; every A position is the left side of exactly
\* one line, a Deleted, Unchanged or Moved one; the number of lines is
\* |A| + |B| minus the number of matched lines.
C29_BInOrderWithLeftovers ==
    Done =>
       /\ WithRight = LinesIn("Added") \cup Matched
       /\ Cardinality(WithRight) = Len(lines_b)
       /\ \A k \in WithRight :
             RightNumber(k) = Cardinality({x \in WithRight : x <= k})
       /\ {k \in 1..Len(result.lines) : IsSome(result.lines[k].left)} = WithLeft
       /\ \A p \in 1..Len(lines_a) :
             Cardinality({k \in WithLeft : LeftNumber(k) = p}) = 1
       /\ Len(result.lines) = Len(lines_a) + Len(lines_b) - Cardinality(Matched)

\* a result that holds a line of every state
C29_Witness ==
    /\ Done
    /\ NumIn("Added") >= 1
    /\ NumIn("Deleted") >= 1
    /\ NumIn("Unchanged") >= 1
    /\ NumIn("Moved") >= 1

\* ----------------------------------------------------------------------
\* The inputs exchanged
\* ----------------------------------------------------------------------
\* compute_diff(B, A) for the inputs of the run
Swapped == compute_diff(lines_b, lines_a)

\* C30: the statistics of compute_diff(B, A) mirror those of
\* compute_diff(A, B): its additions are the deletions of the other, its
\* deletions the additions, and both count the same Moved and the same
\* Unchanged lines.
C30_SwapMirrorsStatistics ==
    Done =>
       /\ Swapped.statistics.additions = result.statistics.deletions
       /\ Swapped.statistics.deletions = result.statistics.additions
       /\ Swapped.statistics.moves = result.statistics.moves
       /\ Swapped.statistics.unchanged = result.statistics.unchanged

\* a result with additions, deletions and moves whose mirror image lists
\* other lines
C30_Witness ==
    /\ Done
    /\ result.statistics.additions >= 1
    /\ result.statistics.deletions >= 1
    /\ result.statistics.moves >= 1
    /\ Swapped.lines # result.lines

\* ======================================================================
\* Properties of CoreTimestampParser
\* ======================================================================
\* no caller is inside strip_timestamps
Quiescent == \A t \in ParserCallers : calls[t].pc \in {"idle", "returned"}

\* the non-empty patterns that compile among a set of patterns
Cacheable(patterns) == {p \in patterns : p # "" /\ RegexIsOk(p)}

PatternsServed == {r.pattern : r \in served}

PatternsInFlight ==
    {calls[t].pattern : t \in {u \in ParserCallers : calls[u].pc \notin {"idle", "returned"}}}

\* what the cache holds, whoever is calling
CacheHoldsPatternsPassed ==
    /\ DOMAIN parser.cache \subseteq Cacheable(PatternsServed \cup PatternsInFlight)
    /\ Cacheable(PatternsServed) \subseteq DOMAIN parser.cache
    /\ \A p \in DOMAIN parser.cache : parser.cache[p] = Regex(p)
    /\ Quiescent =>
          /\ DOMAIN parser.cache = Cacheable(PatternsServed)
          /\ cache_len(parser) = Cardinality(Cacheable(PatternsServed))

\* what the calls served so far returned
ServedAsSpecified ==
    \A r \in served :
        /\ r.pattern = "" =>
              r.result = Ok([k \in 1..Len(r.lines) |-> Text(r.lines[k])])
        /\ (r.pattern # "" /\ ~RegexIsOk(r.pattern)) =>
              /\ ~r.result.ok
              /\ r.result.error.kind = "InvalidPattern"
              /\ r.result.error.pattern = r.pattern
        /\ (r.pattern # "" /\ RegexIsOk(r.pattern)) => r.result.ok
        /\ r.result.ok =>
              /\ Len(r.result.value) = Len(r.lines)
              /\ \A k \in 1..Len(r.lines) :
                    r.result.value[k] \in {Text(r.lines[k]), r.lines[k].body}
        /\ \A r2 \in served :
              (r2.pattern = r.pattern /\ r2.lines = r.lines) => r2.result = r.result

\* a step keeps every entry of the cache, and the steps of a caller that
\* found its pattern in the cache, or that passed the empty pattern or a
\* pattern that does not compile, add none
CacheStep ==
    /\ \A p \in DOMAIN parser.cache :
          p \in DOMAIN parser'.cache /\ parser'.cache[p] = parser.cache[p]
    /\ \A t \in ParserCallers :
          (/\ calls'[t] # calls[t]
           /\ calls[t].pc \notin {"idle", "returned"}
           /\ \/ calls[t].pattern \in DOMAIN parser.cache
              \/ calls[t].pattern = ""
              \/ ~RegexIsOk(calls[t].pattern))
             => parser'.cache = parser.cache

\* C21: whatever the interleaving of the callers of one parser, the cache
\* holds one entry for every distinct non-empty valid pattern passed in a
\* call that has returned and none for any other pattern; an invalid pattern
\* returns InvalidPattern carrying the pattern and adds nothing; the empty
\* pattern returns the input lines and adds nothing; a call with a cached
\* pattern leaves the cache as it is and returns what the first call with the
\* same arguments returned; a successful call returns one output line for
\* every input line, in order.
C21_CachePerValidPattern ==
    /\ [](CacheHoldsPatternsPassed /\ ServedAsSpecified)
    /\ [][CacheStep]_vars

\* both callers have returned from all their calls: one valid pattern was
\* passed twice, with different lines, and is cached once; the invalid and the
\* empty pattern were passed as well
C21_Witness ==
    /\ Quiescent
    /\ \A t \in ParserCallers : calls[t].made = MaxCalls
    /\ cache_len(parser) = 1
    /\ \E r1, r2 \in served :
          /\ r1.pattern = StampPattern
          /\ r2.pattern = StampPattern
          /\ r1.lines # r2.lines
          /\ r1.result.ok /\ r2.result.ok
    /\ \E r \in served : r.pattern = BrokenPattern
    /\ \E r \in served : r.pattern = ""

\* a step of caller t inside strip_timestamps
InsideCall(t) ==
    /\ \/ CheckEmptyPattern(t)
       \/ ReadLock(t)
       \/ Lookup(t)
       \/ Compile(t)
       \/ WriteLock(t)
       \/ Insert(t)
       \/ Strip(t)
    /\ UNCHANGED <<engine_vars, presenter_vars>>

\* every caller is a thread the scheduler runs again and again, and a lock
\* that is released wakes those that wait for it
SpecParserFair ==
    SpecParser /\ \A t \in ParserCallers : WF_vars(InsideCall(t))

\* a caller that asks for the write lock holds no read guard
NoGuardAtWriteLock ==
    \A t \in ParserCallers :
        calls[t].pc \in {"compile", "write"} => t \notin parser.readers

\* a caller that is past the lookup or the insertion finds its pattern cached
MissLeavesEntry ==
    \A t \in ParserCallers :
        (/\ calls[t].pc \in {"strip", "returned"}
         /\ calls[t].pattern \in Cacheable({calls[t].pattern}))
           => /\ calls[t].pattern \in DOMAIN parser.cache
              /\ cache_len(parser) <= Cardinality(Cacheable(ParserPatterns))

\* C28: every call of strip_timestamps returns, whatever the interleaving of
\* the callers of one parser: the read guard of the lookup is dropped before
\* the write lock is asked for, so no caller waits for itself, and callers
\* that miss on the same pattern all return and leave one entry for it.
C28_EveryCallReturns ==
    /\ [](NoGuardAtWriteLock /\ MissLeavesEntry)
    /\ \A t \in ParserCallers :
          (calls[t].pc \notin {"idle", "returned"}) ~> (calls[t].pc = "returned")

\* both callers have missed on the same pattern and both are on their way
\* to the write lock
C28_Witness ==
    /\ \A t \in ParserCallers :
          /\ calls[t].pc = "write"
          /\ calls[t].pattern = StampPattern
    /\ parser.cache = EmptyCache

====
